---- MODULE Spec2Model ----
(***************************************************************************)
(* A model of weathercal's forecast aggregation (src/nws.py): the period   *)
(* classifiers, the block aggregator weather_blocks, the day grouping      *)
(* days, the desirability ranker and the calendar builders that consume    *)
(* them.                                                                   *)
(*                                                                         *)
(* weather_blocks and days are Python generators: each runs until its next *)
(* yield, is suspended while the builder's loop body handles the yielded   *)
(* list, and is resumed by the next iteration of the builder's for loop.   *)
(* pc holds the position of that interleaved control flow.                 *)
(*                                                                         *)
(* A Python list of periods holds references to the period dicts of the    *)
(* payload; a reference is modelled by the period's position in periods.   *)
(* Text is a sequence of one-character strings wherever the code takes it  *)
(* apart (startTime, windSpeed) or builds it (descriptions).               *)
(*                                                                         *)
(* The module also models the two caches: the reactive cache of upstream   *)
(* responses (src/cache.py, two cachetools.TTLCache pools) and the         *)
(* proactive cache of rewritten feeds (src/soloize.py), whose request      *)
(* threads and background refresh loop interleave statement by statement.  *)
(* The reactive cache is also run with two request threads inside          *)
(* cache.fetch_url at once, the refresh loop also as cache.py defines it   *)
(* (on its own map, set and lock), and nws.simplify_gridpoint on           *)
(* coordinates of a few decimal places.                                    *)
(***************************************************************************)
EXTENDS Integers, Sequences, FiniteSets, TLC

VARIABLES
    op,             \* the calendar being built: the interest_fn, or "best"
    periods,        \* data["properties"]["periods"]
    i,              \* how many periods the generator's for loop has taken
    pc,             \* "scan", "yielded", "resume", "done" or "error"
    yield_at,       \* which yield the generator is suspended at
    of_interest,    \* weather_blocks: local of_interest
    current_block,  \* weather_blocks: local current_block
    blocks,         \* the blocks weather_blocks has yielded, in order
    current_day,    \* days: local current_day
    current_date,   \* days: local current_date
    windows,        \* the groups days has yielded, in order
    events,         \* calendar.events, in the order of the add calls
    raised,         \* the exception that ended the build, or "none"
    features,       \* data["features"] of the alerts payload
    now,            \* the clock of the caches (time.monotonic), in seconds
    FORECAST_CACHE, \* cache.FORECAST_CACHE: its entries, least recently used first
    GRIDPOINT_CACHE,\* cache.GRIDPOINT_CACHE: its entries, least recently used first
    calls,          \* how many upstream requests have been issued
    ops,            \* how many operations the caches have been through
    last,           \* the latest call of a cached function and its outcome
    lat,            \* simplify_gridpoint: argument lat
    lon,            \* simplify_gridpoint: argument lon
    cell,           \* the width of the upstream's forecast grid cells
    last_lat,       \* simplify_gridpoint: local last_lat
    last_lon,       \* simplify_gridpoint: local last_lon
    last_forecast,  \* simplify_gridpoint: local last_forecast
    precision,      \* simplify_gridpoint: the loop variable precision
    kept,           \* the number of decimals (last_lat, last_lon) was rounded to
    lookups,        \* how many times simplify_gridpoint has called get_gridpoint
    simplify_pc,    \* "idle", "start", "loop" or "done"
    worker,         \* each request thread's position in cache.fetch_url
    returns,        \* per request thread, its calls of cache.fetch_url so far
    SOLOIZE_CACHE,          \* soloize.SOLOIZE_CACHE: feed URL -> calendar text
    SOLOIZE_TRACKED_URLS,   \* soloize.SOLOIZE_TRACKED_URLS
    SOLOIZE_CACHE_LOCK,     \* the thread holding the lock, or "free"
    thread,         \* each thread's position and locals
    fetched,        \* how many feed requests have been issued
    stored,         \* per feed URL, how many times set_soloize_cache stored it
    history,        \* per request thread, the calls it has returned from
    called,         \* how many calls the request threads have begun
    cycles,         \* how many cycles the background loop has begun
    rounds,         \* per cycle: the snapshot, the URLs run and enrolled late
    loop,           \* the module whose start_background_refresh was called
    feeds,          \* the feed URLs the callers ask for
    cache_SOLOIZE_CACHE,        \* cache.SOLOIZE_CACHE
    cache_SOLOIZE_TRACKED_URLS, \* cache.SOLOIZE_TRACKED_URLS
    cache_SOLOIZE_CACHE_LOCK    \* cache.SOLOIZE_CACHE_LOCK: its holder, or "free"

\* The state of the calendar builders.
buildVars == <<op, periods, i, pc, yield_at, of_interest, current_block, blocks,
               current_day, current_date, windows, events, raised, features>>

\* The state of the reactive cache.
\* The state of simplify_gridpoint.
gridVars == <<lat, lon, cell, last_lat, last_lon, last_forecast, precision,
              kept, lookups, simplify_pc>>

\* The request threads inside cache.fetch_url.
herdVars == <<worker, returns>>

fetchVars == <<now, FORECAST_CACHE, GRIDPOINT_CACHE, calls, ops, last,
               gridVars, herdVars>>

\* The state of the proactive cache and of the threads that use it.
\* What a run of the service never changes: the refresh loop that was started
\* and the URLs its callers ask for.
feedFixed == <<loop, feeds>>

\* The copies of the feed cache map, the tracked set and the lock that
\* cache.py defines for itself (src/cache.py:25-27).
cacheModule == <<cache_SOLOIZE_CACHE, cache_SOLOIZE_TRACKED_URLS,
                 cache_SOLOIZE_CACHE_LOCK>>

feedVars == <<SOLOIZE_CACHE, SOLOIZE_TRACKED_URLS, SOLOIZE_CACHE_LOCK, thread,
              fetched, stored, history, called, cycles, rounds, feedFixed,
              cacheModule>>

\* The state outside the calendar builders.
nonBuildVars == <<fetchVars, feedVars>>

\* The reactive cache as the module leaves it at import: both pools empty.
\* The request threads, and the thread of the background refresh loop.
Requests == {"r1", "r2"}
Threads == Requests \cup {"bg"}

\* simplify_gridpoint is not running.
GridIdle ==
    /\ lat = 0
    /\ lon = 0
    /\ cell = 0
    /\ last_lat = 0
    /\ last_lon = 0
    /\ last_forecast = <<>>
    /\ precision = 0
    /\ kept = 0
    /\ lookups = 0
    /\ simplify_pc = "idle"

\* A request thread that is not inside cache.fetch_url.
Away ==
    [pc |-> "idle", id |-> 0, url |-> <<>>, raced |-> {}, ticket |-> 0,
     response |-> <<>>, victim |-> <<>>]

\* No request thread is inside cache.fetch_url.
HerdIdle ==
    /\ worker = [t \in Requests |-> Away]
    /\ returns = [t \in Requests |-> <<>>]

\* Both pools as cache.py leaves them at import.
PoolsIdle ==
    /\ now = 0
    /\ FORECAST_CACHE = <<>>
    /\ GRIDPOINT_CACHE = <<>>
    /\ calls = 0
    /\ ops = 0
    /\ last = <<>>
    /\ HerdIdle

FetchIdle ==
    /\ PoolsIdle
    /\ GridIdle

\* A feed URL, as urlparse takes it apart: the scheme and the labels of the
\* hostname.
FeedUrl(scheme, hostname) == [scheme |-> scheme, hostname |-> hostname]

FeedUrls ==
    { FeedUrl("https", <<"a", "example", "org">>),
      FeedUrl("http", <<"b", "example", "org">>),
      FeedUrl("http", <<"LOCALHOST">>) }

\* Feed URLs a caller may pass to reach something else than a public feed: a
\* scheme other than http and https, no host, the loopback names and
\* addresses, addresses of the private ranges.
HostileUrls ==
    { FeedUrl("ftp", <<"a", "example", "org">>),
      FeedUrl("http", <<>>),
      FeedUrl("http", <<"LOCALHOST">>),
      FeedUrl("http", <<"::1">>),
      FeedUrl("http", <<"127", "0", "0", "2">>),
      FeedUrl("https", <<"10", "0", "0", "7">>),
      FeedUrl("http", <<"172", "16", "0", "1">>),
      FeedUrl("http", <<"192", "168", "1", "1">>) }

AllFeedUrls == FeedUrls \cup HostileUrls

\* The locals of a thread that is in no call.
Locals(pc0) ==
    [pc |-> pc0, url |-> FeedUrl("", <<>>), result |-> <<>>, ticket |-> 0,
     seen |-> 0, tracked |-> {}]

\* The proactive cache as soloize.py and cache.py leave it at import, the
\* background thread of one of the two modules started and asleep, and the
\* callers asking for the feeds urls.
FeedStarted(module, urls) ==
    /\ SOLOIZE_CACHE = <<>>
    /\ SOLOIZE_TRACKED_URLS = {}
    /\ SOLOIZE_CACHE_LOCK = "free"
    /\ thread = [t \in Threads |-> IF t = "bg" THEN Locals("sleep")
                                   ELSE Locals("idle")]
    /\ fetched = 0
    /\ stored = [url \in AllFeedUrls |-> 0]
    /\ history = [t \in Requests |-> <<>>]
    /\ called = 0
    /\ cycles = 0
    /\ rounds = <<>>
    /\ loop = module
    /\ feeds = urls
    /\ cache_SOLOIZE_CACHE = <<>>
    /\ cache_SOLOIZE_TRACKED_URLS = {}
    /\ cache_SOLOIZE_CACHE_LOCK = "free"

\* The service with the refresh loop of soloize.py.
FeedIdle == FeedStarted("soloize", FeedUrls)

vars == <<buildVars, nonBuildVars>>

(***************************************************************************)
(* Bounds.                                                                 *)
(***************************************************************************)
\* The longest payload (number of periods) explored.
MaxLen == 3

(***************************************************************************)
(* Program constants (src/nws.py:20-23).  Dewpoints are in 1/10000 degree  *)
(* Celsius, so that 15.5556 is the integer 155556.                         *)
(***************************************************************************)
MIN_CHANCE_RAIN == 33
MIN_WARM_TEMP == 68
MAX_COOL_TEMP == 72
MAX_COOL_DEWPOINT == 155556

(***************************************************************************)
(* JSON values.  A nullable number is <<>> (null) or <<n>>.                *)
(***************************************************************************)
Null == <<>>
Num(n) == <<n>>
IsNull(v) == v = Null
Val(v) == v[1]

(***************************************************************************)
(* Text.                                                                   *)
(***************************************************************************)
Digits == <<"0", "1", "2", "3", "4", "5", "6", "7", "8", "9">>
DigitVal(c) == CHOOSE d \in 0..9 : Digits[d + 1] = c

\* str(n) of a natural number.
RECURSIVE Str(_)
Str(n) == IF n < 10 THEN <<Digits[n + 1]>>
          ELSE Str(n \div 10) \o <<Digits[(n % 10) + 1]>>

\* str(v) of a nullable number: str(None) is "None".
StrOpt(v) == IF IsNull(v) THEN <<"N", "o", "n", "e">> ELSE Str(Val(v))

\* int(s) of a string of decimal digits.
RECURSIVE ParseInt(_)
ParseInt(s) == IF Len(s) = 1 THEN DigitVal(s[1])
               ELSE 10 * ParseInt(SubSeq(s, 1, Len(s) - 1)) + DigitVal(s[Len(s)])

\* s.split(sep)[0]: the text before the first sep, all of s when it has none.
SplitFirst(s, sep) ==
    IF \E k \in 1..Len(s) : s[k] = sep
    THEN SubSeq(s, 1, (CHOOSE k \in 1..Len(s) :
                          s[k] = sep /\ \A j \in 1..(k - 1) : s[j] # sep) - 1)
    ELSE s

\* s[:n]
Take(s, n) == SubSeq(s, 1, IF Len(s) < n THEN Len(s) ELSE n)

\* format_range (src/formatting.py:15-37) on numbers that may be None.
format_range(num1, num2) ==
    IF num1 = num2 THEN StrOpt(num1) ELSE StrOpt(num1) \o <<"-">> \o StrOpt(num2)

(***************************************************************************)
(* Forecast periods.  startTime and endTime are ISO-8601 text,             *)
(* "2022-01-01T08:00:00"; hourly periods follow one another, so the period *)
(* at position k of a payload starts at hour k and ends at hour k + 1.     *)
(***************************************************************************)
Date1 == <<"2", "0", "2", "2", "-", "0", "1", "-", "0", "1">>
Date2 == <<"2", "0", "2", "2", "-", "0", "1", "-", "0", "2">>
Dates == {Date1, Date2}

Clock(h) == <<"T", "0", Digits[h + 1], ":", "0", "0", ":", "0", "0">>
TimeStamp(date, h) == date \o Clock(h)

Wind5 == <<"5", " ", "m", "p", "h">>
Wind10 == <<"1", "0", " ", "m", "p", "h">>

\* The weather of one period: what the upstream reports besides the times.
Weather(temp, dew, pop, text, wind, daytime) ==
    [temperature |-> temp, dewpoint |-> dew, probabilityOfPrecipitation |-> pop,
     shortForecast |-> text, windSpeed |-> wind, isDaytime |-> daytime]

\* The period with weather w on date, at position k of the payload.
Period(w, date, k) ==
    [startTime |-> TimeStamp(date, k), endTime |-> TimeStamp(date, k + 1),
     isDaytime |-> w.isDaytime, temperature |-> w.temperature,
     dewpoint |-> w.dewpoint,
     probabilityOfPrecipitation |-> w.probabilityOfPrecipitation,
     shortForecast |-> w.shortForecast, windSpeed |-> w.windSpeed]

\* Weather on both sides of every classifier threshold, with equal and
\* different forecast texts among the rainy ones, and one null probability.
BlockWeather ==
    { Weather(70, 100000, Num(70), "Showers", Wind5, TRUE),
      Weather(72, 155556, Num(80), "Showers", Wind5, TRUE),
      Weather(68, 155557, Num(80), "Thunderstorms", Wind5, TRUE),
      Weather(70, 160000, Num(34), "Thunderstorms", Wind5, TRUE),
      Weather(73, 100000, Num(33), "Sunny", Wind5, TRUE),
      Weather(67, 100000, Num(10), "Mostly Sunny", Wind5, TRUE),
      Weather(70, 100000, Null, "Sunny", Wind5, TRUE) }

(***************************************************************************)
(* Period classifier (src/nws.py:79-138).                                  *)
(***************************************************************************)
InterestFns == {"rain", "warm", "cool", "comfortable"}

\* None > MIN_CHANCE_RAIN raises TypeError.
is_rainy_raises(period) == IsNull(period.probabilityOfPrecipitation)

is_rainy(period) == Val(period.probabilityOfPrecipitation) > MIN_CHANCE_RAIN

\* Mutant of is_warm: a strict comparison.
is_warm_strict(period) == period.temperature > MIN_WARM_TEMP

is_warm(period) == period.temperature >= MIN_WARM_TEMP

is_cool(period) ==
    period.temperature <= MAX_COOL_TEMP /\ period.dewpoint <= MAX_COOL_DEWPOINT

is_comfortable(period) ==
    MIN_WARM_TEMP <= period.temperature /\ period.temperature <= MAX_COOL_TEMP

\* interest_fn(period), for the interest_fn the builder was given.
interest_raises(fn, period) == fn = "rain" /\ is_rainy_raises(period)

interest_fn(fn, period) ==
    CASE fn = "rain" -> is_rainy(period)
      [] fn = "warm" -> is_warm(period)
      [] fn = "cool" -> is_cool(period)
      [] fn = "comfortable" -> is_comfortable(period)

(***************************************************************************)
(* Helpers on lists.                                                       *)
(***************************************************************************)
Last(s) == s[Len(s)]

RECURSIVE Flatten(_)
Flatten(ss) == IF ss = <<>> THEN <<>> ELSE Head(ss) \o Flatten(Tail(ss))

\* The references 1..n in order.
Refs(n) == [k \in 1..n |-> k]

\* min(xs) and max(xs) of a non-empty list of nullable numbers.  A list of
\* one element is returned as is; any comparison with None raises TypeError.
minmax_raises(xs) == Len(xs) >= 2 /\ \E k \in 1..Len(xs) : IsNull(xs[k])

min(xs) ==
    IF Len(xs) = 1 THEN xs[1]
    ELSE Num(CHOOSE m \in {Val(xs[k]) : k \in 1..Len(xs)} :
                 \A k \in 1..Len(xs) : m <= Val(xs[k]))

max(xs) ==
    IF Len(xs) = 1 THEN xs[1]
    ELSE Num(CHOOSE m \in {Val(xs[k]) : k \in 1..Len(xs)} :
                 \A k \in 1..Len(xs) : m >= Val(xs[k]))

(***************************************************************************)
(* Event times.  The builders hand the upstream's ISO-8601 text to         *)
(* ics.Event's begin and end; all timestamps of a payload carry the same   *)
(* UTC offset, so the earlier instant is the lesser text.                  *)
(***************************************************************************)
\* a is an earlier instant than b.
Before(a, b) ==
    \E k \in 1..Len(a) :
        /\ k <= Len(b)
        /\ SubSeq(a, 1, k - 1) = SubSeq(b, 1, k - 1)
        /\ \E x \in 0..9 : \E y \in 0..9 :
               a[k] = Digits[x + 1] /\ b[k] = Digits[y + 1] /\ x < y

\* Mutant of end_raises: any end is taken.
end_accepted(begin, end) == FALSE

\* event.end = ... (src/nws.py:169, 204, 362): the setter of ics.Event
\* raises ValueError for an end that is before the begin already set.
end_raises(begin, end) == Before(end, begin)

(***************************************************************************)
(* UID deriver (src/formatting.py:64-75).  SHA-1 is modelled as a          *)
(* collision-free digest: the identifier determines the hashed text.       *)
(***************************************************************************)
create_uid(string_to_hash) == [sha1 |-> string_to_hash]

\* get_forecast_timestamp (src/nws.py:312-327) of the payload's updateTime,
\* which is the same in every payload explored.
get_forecast_timestamp == <<"Wed Apr 03 03:32 PM">>

(***************************************************************************)
(* Block aggregator: weather_blocks (src/nws.py:212-246).                  *)
(***************************************************************************)
\* Mutants of Extends: the forecast text is not compared; no block is extended.
ExtendsAnyForecast(fn, cb, period) == cb # <<>>

ExtendsNever(fn, cb, period) == FALSE

\* Lines 231-233: the period can be added to the current block.
Extends(fn, cb, period) ==
    cb # <<>> /\ (fn # "rain" \/ periods[cb[1]].shortForecast = period.shortForecast)

\* Mutant of ShouldYield: the guard is dropped.
YieldAlways(cb) == TRUE

\* Lines 238, 242 and 245: `if current_block:` guards every yield.
ShouldYield(cb) == cb # <<>>

\* Mutant of AfterYield: the period that closed the block is not kept.
AfterYieldReset(at, k) == <<>>

\* Lines 240 and 244: current_block after the generator is resumed, k being
\* the period the loop is at.
AfterYield(at, k) == IF at = "new" THEN <<k>> ELSE <<>>

\* The generator suspends at a yield: the builder's loop body runs next.
Yield(at) ==
    /\ blocks' = Append(blocks, current_block)
    /\ yield_at' = at
    /\ pc' = "yielded"
    /\ UNCHANGED current_block

\* One iteration of `for period in periods`, up to its yield if it has one.
BlocksStep ==
    /\ op \in InterestFns
    /\ pc = "scan"
    /\ i < Len(periods)
    /\ i' = i + 1
    /\ LET period == periods[i + 1] IN
       IF interest_raises(op, period)
       THEN /\ pc' = "error"
            /\ raised' = "TypeError"
            /\ UNCHANGED <<of_interest, current_block, blocks, yield_at>>
       ELSE /\ of_interest' = interest_fn(op, period)
            /\ raised' = raised
            /\ IF of_interest'
               THEN IF Extends(op, current_block, period)
                    THEN /\ current_block' = Append(current_block, i + 1)
                         /\ UNCHANGED <<blocks, yield_at, pc>>
                    ELSE IF ShouldYield(current_block)
                         THEN Yield("new")
                         ELSE /\ current_block' = <<i + 1>>
                              /\ UNCHANGED <<blocks, yield_at, pc>>
               ELSE IF ShouldYield(current_block)
                    THEN Yield("reset")
                    ELSE UNCHANGED <<current_block, blocks, yield_at, pc>>
    /\ UNCHANGED <<nonBuildVars, features>>
    /\ UNCHANGED <<op, periods, current_day, current_date, windows, events>>

\* After the loop: the open block, if any, is yielded (lines 245-246).
BlocksFinish ==
    /\ op \in InterestFns
    /\ pc = "scan"
    /\ i = Len(periods)
    /\ IF ShouldYield(current_block)
       THEN Yield("final")
       ELSE /\ pc' = "done"
            /\ UNCHANGED <<current_block, blocks, yield_at>>
    /\ UNCHANGED <<nonBuildVars, features>>
    /\ UNCHANGED <<op, periods, i, of_interest, current_day, current_date,
                   windows, events, raised>>

\* The builder asks for the next block: the generator goes on after its yield.
BlocksResume ==
    /\ op \in InterestFns
    /\ pc = "resume"
    /\ IF yield_at = "final"
       THEN /\ pc' = "done"
            /\ UNCHANGED current_block
       ELSE /\ pc' = "scan"
            /\ current_block' = AfterYield(yield_at, i)
    /\ UNCHANGED <<nonBuildVars, features>>
    /\ UNCHANGED <<op, periods, i, yield_at, of_interest, blocks, current_day,
                   current_date, windows, events, raised>>

(***************************************************************************)
(* Interesting-weather builder: the loop body of                           *)
(* build_interesting_weather_calendar (src/nws.py:346-370).                *)
(***************************************************************************)
event_name(fn, block) ==
    CASE fn = "rain" -> periods[block[1]].shortForecast
      [] fn = "warm" -> "Open [window] for [hot springs]"
      [] fn = "cool" -> "Open [window] for [cool]"
      [] fn = "comfortable" -> "Open [window]"

interesting_event(fn, block) ==
    LET start_time == periods[block[1]].startTime
        end_time == periods[Last(block)].endTime
        name == event_name(fn, block)
        pops == [k \in 1..Len(block) |->
                    periods[block[k]].probabilityOfPrecipitation]
        temps == [k \in 1..Len(block) |-> Num(periods[block[k]].temperature)]
    IN  [uid |-> create_uid(<<name>> \o start_time \o end_time),
         name |-> name,
         begin |-> start_time,
         end |-> end_time,
         description |->
             format_range(min(temps), max(temps)) \o <<"F", "\n">>
             \o format_range(min(pops), max(pops))
             \o <<"% chance of rain", "\n">>
             \o <<"Forecast updated ">> \o get_forecast_timestamp]

BuildInterestingEvent ==
    /\ op \in InterestFns
    /\ pc = "yielded"
    /\ LET block == Last(blocks)
           pops == [k \in 1..Len(block) |->
                       periods[block[k]].probabilityOfPrecipitation]
       IN  IF block = <<>>
           THEN /\ pc' = "error"
                /\ raised' = "IndexError"
                /\ UNCHANGED events
           ELSE IF end_raises(periods[block[1]].startTime,
                              periods[Last(block)].endTime)
           THEN /\ pc' = "error"
                /\ raised' = "ValueError"
                /\ UNCHANGED events
           ELSE IF minmax_raises(pops)
           THEN /\ pc' = "error"
                /\ raised' = "TypeError"
                /\ UNCHANGED events
           ELSE /\ pc' = "resume"
                /\ events' = Append(events, interesting_event(op, block))
                /\ UNCHANGED raised
    /\ UNCHANGED <<nonBuildVars, features>>
    /\ UNCHANGED <<op, periods, i, yield_at, of_interest, current_block,
                   blocks, current_day, current_date, windows>>

(***************************************************************************)
(* The interest calendars: get_rain_calendar, get_warm_calendar,           *)
(* get_cool_calendar and get_comfort_calendar on every payload of at most  *)
(* MaxLen periods.                                                         *)
(***************************************************************************)
\* No calendar is being built.
BuildIdle ==
    /\ i = 0
    /\ pc = "scan"
    /\ yield_at = "none"
    /\ of_interest = FALSE
    /\ current_block = <<>>
    /\ blocks = <<>>
    /\ current_day = <<>>
    /\ current_date = <<>>
    /\ windows = <<>>
    /\ events = <<>>
    /\ raised = "none"
    /\ features = <<>>

Start ==
    /\ BuildIdle
    /\ FetchIdle
    /\ FeedIdle

Init ==
    /\ op \in InterestFns
    /\ \E n \in 0..MaxLen : \E w \in [1..n -> BlockWeather] :
          periods = [k \in 1..n |-> Period(w[k], Date1, k)]
    /\ Start

Next ==
    \/ BlocksStep
    \/ BlocksFinish
    \/ BuildInterestingEvent
    \/ BlocksResume

Spec == Init /\ [][Next]_vars

(***************************************************************************)
(* Day windows: days (src/nws.py:276-290).  current_date = None is the     *)
(* empty text, which no startTime of a payload splits to.                  *)
(***************************************************************************)
\* Mutant of this_date: the startTime is not split.
this_date_unsplit(period) == period.startTime

this_date(period) == SplitFirst(period.startTime, "T")

\* Line 286: current_day after the generator is resumed, k being the period
\* the loop is at.
DayAfterYield(k) == <<k>>

YieldDay(at) ==
    /\ windows' = Append(windows, current_day)
    /\ yield_at' = at
    /\ pc' = "yielded"
    /\ UNCHANGED <<current_day, current_date>>

\* One iteration of `for period in periods`, up to its yield if it has one.
DaysStep ==
    /\ op = "best"
    /\ pc = "scan"
    /\ i < Len(periods)
    /\ i' = i + 1
    /\ LET period == periods[i + 1] IN
       IF ~period.isDaytime
       THEN UNCHANGED <<current_day, current_date, windows, yield_at, pc>>
       ELSE IF current_date # this_date(period)
            THEN IF current_day # <<>>
                 THEN YieldDay("new")
                 ELSE /\ current_day' = <<i + 1>>
                      /\ current_date' = this_date(period)
                      /\ UNCHANGED <<windows, yield_at, pc>>
            ELSE /\ current_day' = Append(current_day, i + 1)
                 /\ UNCHANGED <<current_date, windows, yield_at, pc>>
    /\ UNCHANGED <<nonBuildVars, features>>
    /\ UNCHANGED <<op, periods, of_interest, current_block, blocks, events,
                   raised>>

\* After the loop (line 290): the last group is yielded whatever it holds.
DaysFinish ==
    /\ op = "best"
    /\ pc = "scan"
    /\ i = Len(periods)
    /\ YieldDay("final")
    /\ UNCHANGED <<nonBuildVars, features>>
    /\ UNCHANGED <<op, periods, i, of_interest, current_block, blocks, events,
                   raised>>

\* The builder asks for the next day: the generator goes on after its yield
\* (lines 286-287), or returns after the last one.
DaysResume ==
    /\ op = "best"
    /\ pc = "resume"
    /\ IF yield_at = "final"
       THEN /\ pc' = "done"
            /\ UNCHANGED <<current_day, current_date>>
       ELSE /\ pc' = "scan"
            /\ current_day' = DayAfterYield(i)
            /\ current_date' = this_date(periods[i])
    /\ UNCHANGED <<nonBuildVars, features>>
    /\ UNCHANGED <<op, periods, i, yield_at, of_interest, current_block,
                   blocks, windows, events, raised>>

(***************************************************************************)
(* Desirability ranker: forecast_desirability (src/nws.py:293-309) and     *)
(* sorted(day, key=forecast_desirability).                                 *)
(***************************************************************************)
\* max(None, MIN_CHANCE_RAIN) raises TypeError.
forecast_desirability_raises(period) == IsNull(period.probabilityOfPrecipitation)

forecast_desirability(period) ==
    LET pop == Val(period.probabilityOfPrecipitation)
        prob_precip == IF pop > MIN_CHANCE_RAIN THEN pop ELSE MIN_CHANCE_RAIN
        d == 70 - period.temperature
        temp_discomfort == IF d < 0 THEN -d ELSE d
        wind_speed == ParseInt(SplitFirst(period.windSpeed, " "))
    IN  <<prob_precip, temp_discomfort, wind_speed>>

\* Python's order on tuples of three integers.
TupleLess(a, b) ==
    \/ a[1] < b[1]
    \/ a[1] = b[1] /\ a[2] < b[2]
    \/ a[1] = b[1] /\ a[2] = b[2] /\ a[3] < b[3]

RECURSIVE Insert(_, _)
\* Mutant of Insert: x goes before the elements of equal key (an unstable sort).
RECURSIVE InsertBeforeEqual(_, _)
InsertBeforeEqual(x, s) ==
    IF s = <<>> THEN <<x>>
    ELSE IF ~TupleLess(forecast_desirability(periods[Head(s)]),
                       forecast_desirability(periods[x]))
         THEN <<x>> \o s
         ELSE <<Head(s)>> \o InsertBeforeEqual(x, Tail(s))

\* x goes after every element that is not greater: equal keys keep their order.
Insert(x, s) ==
    IF s = <<>> THEN <<x>>
    ELSE IF TupleLess(forecast_desirability(periods[x]),
                      forecast_desirability(periods[Head(s)]))
         THEN <<x>> \o s
         ELSE <<Head(s)>> \o Insert(x, Tail(s))

\* sorted(day, key=forecast_desirability): a stable sort.
RECURSIVE sorted(_)
sorted(day) ==
    IF day = <<>> THEN <<>>
    ELSE Insert(Last(day), sorted(SubSeq(day, 1, Len(day) - 1)))

(***************************************************************************)
(* Best-weather builder: the loop body of build_best_weather_calendar      *)
(* (src/nws.py:195-208).                                                   *)
(***************************************************************************)
\* Mutant of best_uid: the whole startTime is hashed.
best_uid_whole(start_time) == create_uid(start_time)

\* Line 201: uid=formatting.create_uid(start_time[:10]).
best_uid(start_time) == create_uid(Take(start_time, 10))

best_event(best_period) ==
    LET start_time == best_period.startTime
        temp == Num(best_period.temperature)
        prob_precip == best_period.probabilityOfPrecipitation
    IN  [uid |-> best_uid(start_time),
         name |-> best_period.shortForecast,
         begin |-> start_time,
         end |-> best_period.endTime,
         description |->
             StrOpt(temp) \o <<"F, ">> \o StrOpt(prob_precip)
             \o <<"% chance of rain", "\n">>
             \o <<"Forecast updated ">> \o get_forecast_timestamp]

BuildBestEvent ==
    /\ op = "best"
    /\ pc = "yielded"
    /\ LET day == Last(windows) IN
       IF \E k \in 1..Len(day) : forecast_desirability_raises(periods[day[k]])
       THEN /\ pc' = "error"
            /\ raised' = "TypeError"
            /\ UNCHANGED events
       ELSE IF sorted(day) = <<>>
       THEN /\ pc' = "error"
            /\ raised' = "IndexError"
            /\ UNCHANGED events
       ELSE IF end_raises(periods[sorted(day)[1]].startTime,
                          periods[sorted(day)[1]].endTime)
       THEN /\ pc' = "error"
            /\ raised' = "ValueError"
            /\ UNCHANGED events
       ELSE /\ pc' = "resume"
            /\ events' = Append(events, best_event(periods[sorted(day)[1]]))
            /\ UNCHANGED raised
    /\ UNCHANGED <<nonBuildVars, features>>
    /\ UNCHANGED <<op, periods, i, yield_at, of_interest, current_block,
                   blocks, current_day, current_date, windows>>

(***************************************************************************)
(* The best-weather calendar: get_best_weather_calendar on every payload   *)
(* of at most MaxLen periods of two dates, in any order.                   *)
(***************************************************************************)
\* The example of the ranking, two periods of equal key, one that differs
\* from them in wind speed only, one warmer than 70 F with a low probability,
\* a null probability, and a night period.
DayWeather ==
    { Weather(72, 100000, Num(40), "Partly Sunny", Wind5, TRUE),
      Weather(71, 100000, Num(10), "Mostly Clear", Wind5, TRUE),
      Weather(70, 100000, Num(20), "Sunny", Wind10, TRUE),
      Weather(70, 100000, Num(33), "Mostly Sunny", Wind10, TRUE),
      Weather(70, 100000, Num(20), "Breezy", Wind5, TRUE),
      Weather(70, 100000, Null, "Cloudy", Wind5, TRUE),
      Weather(60, 100000, Num(10), "Clear", Wind5, FALSE) }

InitDays ==
    /\ op = "best"
    /\ \E n \in 0..MaxLen :
          \E w \in [1..n -> DayWeather] : \E d \in [1..n -> Dates] :
             periods = [k \in 1..n |-> Period(w[k], d[k], k)]
    /\ Start

NextDays ==
    \/ DaysStep
    \/ DaysFinish
    \/ BuildBestEvent
    \/ DaysResume

SpecDays == InitDays /\ [][NextDays]_vars

(***************************************************************************)
(* Alert builder: build_alert_calendar (src/nws.py:152-174).  A feature is *)
(* modelled by its properties; ends is null (<<>>) when the upstream       *)
(* reports no end, and Given(text) when it is a JSON string, which may be  *)
(* the empty one.  The UID of an alert event is whatever ics.Event()       *)
(* assigns and is not part of the record.                                  *)
(***************************************************************************)
\* A JSON string where null is possible too.
Given(text) == <<text>>

\* bool(value) of a nullable string: None and "" are both falsy.
truthy(value) == ~IsNull(value) /\ Val(value) # <<>>

\* Mutant of alert_end: the end is always expires.
alert_end_expires(properties) == properties.expires

\* properties["ends"] or properties["expires"]
alert_end(properties) ==
    IF truthy(properties.ends) THEN Val(properties.ends)
    ELSE properties.expires

\* re.sub(r"(?<!\n)\n(?!\n)", " ", text): a newline with no newline next to
\* it becomes a space.
sub_single_newlines(text) ==
    [k \in 1..Len(text) |->
        IF /\ text[k] = "\n"
           /\ (k = 1 \/ text[k - 1] # "\n")
           /\ (k = Len(text) \/ text[k + 1] # "\n")
        THEN " " ELSE text[k]]

alert_event(properties) ==
    [name |-> properties.event,
     begin |-> properties.onset,
     end |-> alert_end(properties),
     description |-> sub_single_newlines(properties.description)]

\* One iteration of `for feature in data["features"]`.
BuildAlertEvent ==
    /\ op = "alerts"
    /\ pc = "scan"
    /\ i < Len(features)
    /\ i' = i + 1
    /\ LET properties == features[i + 1] IN
       IF end_raises(properties.onset, alert_end(properties))
       THEN /\ pc' = "error"
            /\ raised' = "ValueError"
            /\ UNCHANGED events
       ELSE /\ events' = Append(events, alert_event(properties))
            /\ UNCHANGED <<pc, raised>>
    /\ UNCHANGED <<nonBuildVars, features>>
    /\ UNCHANGED <<op, periods, yield_at, of_interest, current_block, blocks,
                   current_day, current_date, windows>>

\* After the loop: return calendar.
AlertsFinish ==
    /\ op = "alerts"
    /\ pc = "scan"
    /\ i = Len(features)
    /\ pc' = "done"
    /\ UNCHANGED <<nonBuildVars, features>>
    /\ UNCHANGED <<op, periods, i, yield_at, of_interest, current_block,
                   blocks, current_day, current_date, windows, events, raised>>

(***************************************************************************)
(* The alert calendar: get_alert_calendar on every payload of at most      *)
(* MaxLen features.                                                        *)
(***************************************************************************)
Alert(event, onset, ends, expires, description) ==
    [event |-> event, onset |-> onset, ends |-> ends, expires |-> expires,
     description |-> description]

\* Alerts with an end, without one (the message then expires after, at or
\* before the onset), with an end before the onset, and with an empty text
\* for an end.
AlertPool ==
    { Alert("Flood Warning", TimeStamp(Date1, 1), Given(TimeStamp(Date1, 3)),
            TimeStamp(Date1, 2), <<"Flooding", "\n", "expected.">>),
      Alert("Heat Advisory", TimeStamp(Date1, 2), Null,
            TimeStamp(Date2, 0), <<"Hot.", "\n", "\n", "Drink", "\n", "water.">>),
      Alert("Wind Advisory", TimeStamp(Date2, 1), Null,
            TimeStamp(Date2, 1), <<"Gusts.">>),
      Alert("Winter Storm Watch", TimeStamp(Date2, 4), Null,
            TimeStamp(Date1, 9), <<"Snow", "\n", "possible.">>),
      Alert("Special Weather Statement", TimeStamp(Date2, 2),
            Given(TimeStamp(Date1, 5)), TimeStamp(Date2, 3), <<"Fog.">>),
      Alert("Frost Advisory", TimeStamp(Date1, 4), Given(<<>>),
            TimeStamp(Date1, 6), <<"Frost.">>) }

InitAlerts ==
    /\ op = "alerts"
    /\ periods = <<>>
    /\ i = 0
    /\ pc = "scan"
    /\ yield_at = "none"
    /\ of_interest = FALSE
    /\ current_block = <<>>
    /\ blocks = <<>>
    /\ current_day = <<>>
    /\ current_date = <<>>
    /\ windows = <<>>
    /\ events = <<>>
    /\ raised = "none"
    /\ \E n \in 0..MaxLen : features \in [1..n -> AlertPool]
    /\ FetchIdle
    /\ FeedIdle

NextAlerts ==
    \/ BuildAlertEvent
    \/ AlertsFinish

SpecAlerts == InitAlerts /\ [][NextAlerts]_vars

(***************************************************************************)
(* Every calendar the builders produce: the interest calendars, the        *)
(* best-weather calendar and the alert calendar.                           *)
(***************************************************************************)
InitCalendars == Init \/ InitDays \/ InitAlerts

NextCalendars ==
    \/ BlocksStep
    \/ BlocksFinish
    \/ BuildInterestingEvent
    \/ BlocksResume
    \/ DaysStep
    \/ DaysFinish
    \/ BuildBestEvent
    \/ DaysResume
    \/ BuildAlertEvent
    \/ AlertsFinish

SpecCalendars == InitCalendars /\ [][NextCalendars]_vars

(***************************************************************************)
(* Reactive cache (src/cache.py:18-58): two cachetools.TTLCache pools      *)
(* behind @cachetools.cached.  A pool is the sequence of its stored        *)
(* entries, least recently used first; an entry is the key, the response   *)
(* stored under it, the time it expires and, as history, the operation     *)
(* that last inserted or read it.                                          *)
(***************************************************************************)
FORECAST_MAXSIZE == 10
FORECAST_TTL == 3600
GRIDPOINT_MAXSIZE == 42
GRIDPOINT_TTL == 77410

\* The longest run of cache operations explored.
MaxOps == 3

\* A forecast or alerts URL, and the points URL of a latitude and longitude.
Url(kind, n) == [kind |-> kind, n |-> n]

\* What the upstream answers: the status, the time of the answer and the
\* number of the request it answers.
Response(url, status, time, call) ==
    [url |-> url, status |-> status, date |-> time, call |-> call]

Statuses == {200, 204, 300, 404}

\* requests.get gets no response at all (connection error, timeout after
\* 10 s) and raises: the status that stands for it.
NoResponse == 0

\* What becomes of an upstream request.
Answers == Statuses \cup {NoResponse}

\* response.raise_for_status(): HTTPError for a 4xx or 5xx status only.
raise_for_status_raises(status) == status >= 400 /\ status < 600

\* request_url (lines 53-58): requests.get raises when there is no response;
\* raise_for_status is called for a status other than 200, and the response
\* is returned when it does not raise.
request_url_raises(status) ==
    \/ status = NoResponse
    \/ status # 200 /\ raise_for_status_raises(status)

\* Mutant of Live: an entry is still served at the second it expires.
LiveAtExpiry(entry, time) == time <= entry.expires

\* TTLCache: an entry is served while the clock is before its expiry.
Live(entry, time) == time < entry.expires

\* TTLCache.expire(time): the expired entries are removed.
RECURSIVE expire(_, _)
expire(c, time) ==
    IF c = <<>> THEN <<>>
    ELSE IF Live(Head(c), time) THEN <<Head(c)>> \o expire(Tail(c), time)
         ELSE expire(Tail(c), time)

Has(c, key) == \E k \in 1..Len(c) : c[k].key = key
Index(c, key) == CHOOSE k \in 1..Len(c) : c[k].key = key
Without(c, key) == [k \in 1..(Len(c) - 1) |->
                       IF k < Index(c, key) THEN c[k] ELSE c[k + 1]]

\* Mutant of Touch: a read does not change the order of the entries.
TouchNothing(c, key, stamp) ==
    [k \in 1..Len(c) |-> IF c[k].key = key THEN [c[k] EXCEPT !.used = stamp]
                         ELSE c[k]]

\* TTLCache.__getitem__ looks the key up and moves it to the most recently
\* used end, whether the entry turns out to be expired or not.
Touch(c, key, stamp) ==
    IF Has(c, key)
    THEN Append(Without(c, key), [c[Index(c, key)] EXCEPT !.used = stamp])
    ELSE c

\* cache[key] returns a value: the key is stored and its entry is live.
Hit(c, key, time) == Has(c, key) /\ Live(c[Index(c, key)], time)

\* cache[key] = value: expired entries are removed, then the least recently
\* used entry if the pool is full and the key is new, then the entry is
\* stored as the most recently used one with a fresh expiry.
setitem(c, key, value, time, maxsize, ttl, stamp) ==
    LET live == expire(c, time)
        room == IF Has(live, key) THEN Without(live, key)
                ELSE IF Len(live) + 1 > maxsize THEN Tail(live)
                ELSE live
    IN  Append(room, [key |-> key, value |-> value, expires |-> time + ttl,
                      used |-> stamp])

\* The wrapper of @cachetools.cached around request_url, on pool c: the pool
\* after the call and the outcome of the call, the upstream answering status
\* if it is asked.
cached_pool(c, url, status, maxsize, ttl) ==
    IF Hit(c, url, now) THEN Touch(c, url, ops + 1)
    ELSE IF request_url_raises(status) THEN Touch(c, url, ops + 1)
    ELSE setitem(Touch(c, url, ops + 1), url,
                 Response(url, status, now, calls + 1), now, maxsize, ttl,
                 ops + 1)

\* err_response is the response attribute of the exception raised: the
\* upstream's response for an HTTPError, None when there was no response.
cached_outcome(fn, c, url, status) ==
    IF Hit(c, url, now)
    THEN [fn |-> fn, url |-> url, at |-> now, network |-> FALSE,
          upstream |-> <<>>, raised |-> "none", err_response |-> <<>>,
          response |-> <<c[Index(c, url)].value>>]
    ELSE IF request_url_raises(status)
    THEN [fn |-> fn, url |-> url, at |-> now, network |-> TRUE,
          upstream |-> <<status>>,
          raised |-> IF status = NoResponse THEN "ConnectionError"
                     ELSE "HTTPError",
          err_response |-> IF status = NoResponse THEN <<>>
                           ELSE <<Response(url, status, now, calls + 1)>>,
          response |-> <<>>]
    ELSE [fn |-> fn, url |-> url, at |-> now, network |-> TRUE,
          upstream |-> <<status>>, raised |-> "none", err_response |-> <<>>,
          response |-> <<Response(url, status, now, calls + 1)>>]

\* nws.fetch_url (src/nws.py:53-58) around cache.fetch_url: a
\* RequestException is turned into flask.abort(response.status_code,
\* response.text), response being err.response; reading status_code of None
\* raises AttributeError.
nws_fetch_url(outcome) ==
    IF outcome.raised = "none" THEN outcome
    ELSE IF outcome.err_response = <<>>
    THEN [outcome EXCEPT !.raised = "AttributeError"]
    ELSE [outcome EXCEPT !.raised = "HTTPException"]

\* The URLs requested: one the pool holds after a warm start, one it does not.
ForecastUrls == {Url("forecast", 1), Url("forecast", FORECAST_MAXSIZE + 1)}
PointsUrls == {Url("points", 1), Url("points", GRIDPOINT_MAXSIZE + 1)}

\* nws.fetch_url(url) (src/nws.py:38-58), which calls cache.fetch_url(url)
\* (lines 31-45).
FetchUrl ==
    /\ ops < MaxOps
    /\ \E url \in ForecastUrls : \E status \in Answers :
          /\ FORECAST_CACHE' = cached_pool(FORECAST_CACHE, url, status,
                                           FORECAST_MAXSIZE, FORECAST_TTL)
          /\ last' = nws_fetch_url(cached_outcome("fetch_url", FORECAST_CACHE,
                                                  url, status))
          /\ calls' = IF last'.network THEN calls + 1 ELSE calls
    /\ ops' = ops + 1
    /\ UNCHANGED <<now, GRIDPOINT_CACHE, gridVars, herdVars, buildVars, feedVars>>

\* nws.get_gridpoint(lat, lon) (src/nws.py:374-391): the points URL is
\* fetched with fetch_url.
GetGridpoint ==
    /\ ops < MaxOps
    /\ \E url \in PointsUrls : \E status \in Answers :
          /\ FORECAST_CACHE' = cached_pool(FORECAST_CACHE, url, status,
                                           FORECAST_MAXSIZE, FORECAST_TTL)
          /\ last' = nws_fetch_url(cached_outcome("get_gridpoint",
                                                  FORECAST_CACHE, url, status))
          /\ calls' = IF last'.network THEN calls + 1 ELSE calls
    /\ ops' = ops + 1
    /\ UNCHANGED <<now, GRIDPOINT_CACHE, gridVars, herdVars, buildVars, feedVars>>

\* cache.fetch_gridpoint(url) (lines 48-50).
FetchGridpoint ==
    /\ ops < MaxOps
    /\ \E url \in PointsUrls : \E status \in Answers :
          /\ GRIDPOINT_CACHE' = cached_pool(GRIDPOINT_CACHE, url, status,
                                            GRIDPOINT_MAXSIZE, GRIDPOINT_TTL)
          /\ last' = cached_outcome("fetch_gridpoint", GRIDPOINT_CACHE, url,
                                    status)
          /\ calls' = IF last'.network THEN calls + 1 ELSE calls
    /\ ops' = ops + 1
    /\ UNCHANGED <<now, FORECAST_CACHE, gridVars, herdVars, buildVars, feedVars>>

\* Time passes between two calls: a second, or all but the last second of a
\* pool's time to live.
Tick ==
    /\ ops < MaxOps
    /\ \E d \in {1, FORECAST_TTL - 1, GRIDPOINT_TTL - 1} : now' = now + d
    /\ ops' = ops + 1
    /\ UNCHANGED <<FORECAST_CACHE, GRIDPOINT_CACHE, calls, last, gridVars,
                   herdVars, buildVars, feedVars>>

\* The pool after the URLs 1..n of a kind were fetched one after the other
\* at time 0, each with status 200, `before` requests having gone before.
Served(kind, n, ttl, before) ==
    [k \in 1..n |-> [key |-> Url(kind, k),
                     value |-> Response(Url(kind, k), 200, 0, before + k),
                     expires |-> ttl,
                     used |-> k - n]]

\* The service at import, and after it has filled both pools, or all but one
\* slot of each, at time 0.
InitFetch ==
    /\ op = "fetch"
    /\ periods = <<>>
    /\ i = 0
    /\ pc = "scan"
    /\ yield_at = "none"
    /\ of_interest = FALSE
    /\ current_block = <<>>
    /\ blocks = <<>>
    /\ current_day = <<>>
    /\ current_date = <<>>
    /\ windows = <<>>
    /\ events = <<>>
    /\ raised = "none"
    /\ features = <<>>
    /\ now = 0
    /\ ops = 0
    /\ last = <<>>
    /\ \E free \in {0, 1, GRIDPOINT_MAXSIZE} :
          /\ FORECAST_CACHE =
                IF free > FORECAST_MAXSIZE THEN <<>>
                ELSE Served("forecast", FORECAST_MAXSIZE - free, FORECAST_TTL,
                            0)
          /\ GRIDPOINT_CACHE =
                Served("points", GRIDPOINT_MAXSIZE - free, GRIDPOINT_TTL,
                       Len(FORECAST_CACHE))
          /\ calls = Len(FORECAST_CACHE) + Len(GRIDPOINT_CACHE)
    /\ GridIdle
    /\ HerdIdle
    /\ FeedIdle

NextFetch ==
    \/ FetchUrl
    \/ GetGridpoint
    \/ FetchGridpoint
    \/ Tick

SpecFetch == InitFetch /\ [][NextFetch]_vars

(***************************************************************************)
(* cache.fetch_url called by several request threads at once.  The wrapper  *)
(* of @cachetools.cached is given no lock (src/cache.py:31), so the threads *)
(* run the wrapper and TTLCache.__setitem__ unsynchronized.  A thread's     *)
(* steps: the lookup cache[k]; the upstream request and its answer; the     *)
(* start of cache[k] = v (expired entries removed, the test whether room    *)
(* must be made); popitem choosing the least recently used key; the pop of  *)
(* that key; the write of the entry.                                       *)
(***************************************************************************)
\* The calls of other threads that have missed on url and have not returned.
InFlight(t, url) ==
    { worker[u].id : u \in { r \in Requests \ {t} :
                               /\ worker[r].url = url
                               /\ worker[r].pc \notin {"idle", "lookup"} } }

\* A call of cache.fetch_url that has returned or raised.
Outcome(t, kind, response) ==
    [id |-> worker[t].id, url |-> worker[t].url, raced |-> worker[t].raced,
     network |-> worker[t].ticket > 0, raised |-> kind, response |-> response]

\* Thread t leaves cache.fetch_url.
Leave(t, kind, response) ==
    /\ worker' = [worker EXCEPT ![t] = Away]
    /\ returns' = [returns EXCEPT ![t] = Append(@, Outcome(t, kind, response))]

\* A request thread calls cache.fetch_url(url).
HerdCall ==
    /\ ops < MaxOps
    /\ \E t \in Requests : \E url \in ForecastUrls :
          /\ worker[t].pc = "idle"
          /\ worker' = [worker EXCEPT ![t] = [Away EXCEPT !.pc = "lookup",
                                                         !.id = ops + 1,
                                                         !.url = url]]
    /\ ops' = ops + 1
    /\ UNCHANGED <<now, FORECAST_CACHE, GRIDPOINT_CACHE, calls, last, returns,
                   gridVars, buildVars, feedVars>>

\* The wrapper's `return cache[k]`: a live entry is returned; on KeyError
\* the upstream is asked (request_url, line 55).
HerdLookup ==
    /\ \E t \in Requests :
          /\ worker[t].pc = "lookup"
          /\ FORECAST_CACHE' = Touch(FORECAST_CACHE, worker[t].url,
                                     worker[t].id)
          /\ IF Hit(FORECAST_CACHE, worker[t].url, now)
             THEN /\ Leave(t, "none",
                           <<FORECAST_CACHE[Index(FORECAST_CACHE,
                                                  worker[t].url)].value>>)
                  /\ UNCHANGED calls
             ELSE /\ worker' = [worker EXCEPT
                                   ![t].pc = "request",
                                   ![t].raced = InFlight(t, worker[t].url),
                                   ![t].ticket = calls + 1]
                  /\ calls' = calls + 1
                  /\ UNCHANGED returns
    /\ UNCHANGED <<now, GRIDPOINT_CACHE, ops, last, gridVars, buildVars,
                   feedVars>>

\* request_url, lines 55-58: the upstream's answer, or none.
HerdAnswer ==
    /\ \E t \in Requests : \E status \in Answers :
          /\ worker[t].pc = "request"
          /\ IF request_url_raises(status)
             THEN Leave(t, IF status = NoResponse THEN "ConnectionError"
                           ELSE "HTTPError", <<>>)
             ELSE /\ worker' = [worker EXCEPT
                                   ![t].pc = "store",
                                   ![t].response =
                                      <<Response(worker[t].url, status, now,
                                                 worker[t].ticket)>>]
                  /\ UNCHANGED returns
    /\ UNCHANGED <<now, FORECAST_CACHE, GRIDPOINT_CACHE, calls, ops, last,
                   gridVars, buildVars, feedVars>>

\* The wrapper's `cache[k] = v`, TTLCache.__setitem__ up to the test of
\* Cache.__setitem__: expired entries are removed; room is to be made if the
\* key is new and the pool is full.
HerdStore ==
    /\ \E t \in Requests :
          /\ worker[t].pc = "store"
          /\ FORECAST_CACHE' = expire(FORECAST_CACHE, now)
          /\ worker' = [worker EXCEPT ![t].pc =
                           IF /\ ~Has(FORECAST_CACHE', worker[t].url)
                              /\ Len(FORECAST_CACHE') + 1 > FORECAST_MAXSIZE
                           THEN "popitem" ELSE "write"]
    /\ UNCHANGED <<now, GRIDPOINT_CACHE, calls, ops, last, returns, gridVars,
                   buildVars, feedVars>>

\* TTLCache.popitem, first half: expired entries are removed and the least
\* recently used key is taken; KeyError if the pool is empty.
HerdPopitem ==
    /\ \E t \in Requests :
          /\ worker[t].pc = "popitem"
          /\ FORECAST_CACHE' = expire(FORECAST_CACHE, now)
          /\ IF FORECAST_CACHE' = <<>>
             THEN Leave(t, "KeyError", <<>>)
             ELSE /\ worker' = [worker EXCEPT
                                   ![t].pc = "pop",
                                   ![t].victim = <<Head(FORECAST_CACHE').key>>]
                  /\ UNCHANGED returns
    /\ UNCHANGED <<now, GRIDPOINT_CACHE, calls, ops, last, gridVars, buildVars,
                   feedVars>>

\* TTLCache.popitem, second half: self.pop(key) removes the key, or raises
\* KeyError if the pool does not hold it any more; then the test of the
\* while loop of Cache.__setitem__ again.
HerdPop ==
    /\ \E t \in Requests :
          /\ worker[t].pc = "pop"
          /\ IF Hit(FORECAST_CACHE, worker[t].victim[1], now)
             THEN /\ FORECAST_CACHE' =
                        Without(FORECAST_CACHE, worker[t].victim[1])
                  /\ worker' = [worker EXCEPT
                                   ![t].pc =
                                      IF Len(FORECAST_CACHE') + 1
                                            > FORECAST_MAXSIZE
                                      THEN "popitem" ELSE "write",
                                   ![t].victim = <<>>]
                  /\ UNCHANGED returns
             ELSE /\ Leave(t, "KeyError", <<>>)
                  /\ UNCHANGED FORECAST_CACHE
    /\ UNCHANGED <<now, GRIDPOINT_CACHE, calls, ops, last, gridVars, buildVars,
                   feedVars>>

\* The end of Cache.__setitem__ and of TTLCache.__setitem__: the value is
\* written under the key and the key becomes the most recently used one, with
\* a fresh expiry; the wrapper returns the response.
HerdWrite ==
    /\ \E t \in Requests :
          /\ worker[t].pc = "write"
          /\ FORECAST_CACHE' =
                Append(IF Has(FORECAST_CACHE, worker[t].url)
                       THEN Without(FORECAST_CACHE, worker[t].url)
                       ELSE FORECAST_CACHE,
                       [key |-> worker[t].url,
                        value |-> worker[t].response[1],
                        expires |-> now + FORECAST_TTL,
                        used |-> worker[t].id])
          /\ Leave(t, "none", worker[t].response)
    /\ UNCHANGED <<now, GRIDPOINT_CACHE, calls, ops, last, gridVars, buildVars,
                   feedVars>>

NextHerd ==
    \/ HerdCall
    \/ HerdLookup
    \/ HerdAnswer
    \/ HerdStore
    \/ HerdPopitem
    \/ HerdPop
    \/ HerdWrite

SpecHerd == InitFetch /\ [][NextHerd]_vars

(***************************************************************************)
(* simplify_gridpoint (src/nws.py:394-418).  A coordinate is a whole number *)
(* of units of 10^-MaxDigits degrees: with MaxDigits = 2 the float 0.25 is  *)
(* 25 and 0.3 is 30.  Each lookup is a call of get_gridpoint, whose effect  *)
(* on the forecast pool is that of GetGridpoint; here the upstream answers  *)
(* every lookup with the grid cell of the point.                           *)
(***************************************************************************)
\* The most decimals of a coordinate.
MaxDigits == 2

Unit == 10 ^ MaxDigits

\* len(str(x).split(".")[1]): the decimals of the shortest text of the
\* float, of which there is at least one ("1.0").
decimals(x) ==
    CHOOSE d \in 1..MaxDigits :
       /\ x % (10 ^ (MaxDigits - d)) = 0
       /\ d = 1 \/ x % (10 ^ (MaxDigits - d + 1)) # 0

\* round(x, ndigits): the nearest multiple of 10^-ndigits.  A float whose
\* decimal text lies halfway between two multiples is above or below the
\* middle in binary, so that either neighbour can come out (round(0.35, 1)
\* is 0.3, round(0.45, 1) is 0.5): the results possible.
round(x, ndigits) ==
    IF ndigits >= MaxDigits THEN {x}
    ELSE LET q == 10 ^ (MaxDigits - ndigits)
             below == (x \div q) * q
         IN  IF 2 * (x - below) < q THEN {below}
             ELSE IF 2 * (x - below) > q THEN {below + q}
             ELSE {below, below + q}

\* get_gridpoint(lat, lon)["forecastHourly"]: the forecast URL of the grid
\* cell the point lies in.
forecastHourly(la, lo) == <<la \div cell, lo \div cell>>

\* The coordinates and the grids explored: every latitude below one degree,
\* some longitudes with no, one and MaxDigits decimals, cells of 0.15 and of
\* 0.3 degrees.
Lats == 0..(Unit - 1)
Lons == {0, 1, Unit \div 4, Unit \div 2, Unit - 1}
Cells == {(15 * Unit) \div 100, (3 * Unit) \div 10}

\* Lines 406-409: the first lookup, with the arguments as given.
SimplifyStart ==
    /\ simplify_pc = "start"
    /\ last_lat' = lat
    /\ last_lon' = lon
    /\ last_forecast' = forecastHourly(lat, lon)
    /\ LET original_precision ==
               IF decimals(lat) > decimals(lon) THEN decimals(lat)
               ELSE decimals(lon)
       IN  /\ precision' = original_precision - 1
           /\ kept' = original_precision
    /\ lookups' = 1
    /\ simplify_pc' = "loop"
    /\ UNCHANGED <<lat, lon, cell, now, FORECAST_CACHE, GRIDPOINT_CACHE, calls,
                   ops, last, herdVars, buildVars, feedVars>>

\* Lines 410-417: one pass of `for precision in range(original_precision - 1,
\* 0, -1)`.
SimplifyStep ==
    /\ simplify_pc = "loop"
    /\ precision >= 1
    /\ \E rounded_lat \in round(lat, precision) :
       \E rounded_lon \in round(lon, precision) :
          LET forecast == forecastHourly(rounded_lat, rounded_lon) IN
          IF forecast # last_forecast
          THEN /\ simplify_pc' = "done"
               /\ UNCHANGED <<last_lat, last_lon, last_forecast, precision,
                              kept>>
          ELSE /\ last_lat' = rounded_lat
               /\ last_lon' = rounded_lon
               /\ last_forecast' = forecast
               /\ kept' = precision
               /\ precision' = precision - 1
               /\ UNCHANGED simplify_pc
    /\ lookups' = lookups + 1
    /\ UNCHANGED <<lat, lon, cell, now, FORECAST_CACHE, GRIDPOINT_CACHE, calls,
                   ops, last, herdVars, buildVars, feedVars>>

\* Line 418, after the range is exhausted.
SimplifyReturn ==
    /\ simplify_pc = "loop"
    /\ precision < 1
    /\ simplify_pc' = "done"
    /\ UNCHANGED <<lat, lon, cell, last_lat, last_lon, last_forecast, precision,
                   kept, lookups, now, FORECAST_CACHE, GRIDPOINT_CACHE, calls,
                   ops, last, herdVars, buildVars, feedVars>>

InitSimplify ==
    /\ op = "simplify"
    /\ periods = <<>>
    /\ BuildIdle
    /\ PoolsIdle
    /\ FeedIdle
    /\ lat \in Lats
    /\ lon \in Lons
    /\ cell \in Cells
    /\ last_lat = 0
    /\ last_lon = 0
    /\ last_forecast = <<>>
    /\ precision = 0
    /\ kept = 0
    /\ lookups = 0
    /\ simplify_pc = "start"

NextSimplify ==
    \/ SimplifyStart
    \/ SimplifyStep
    \/ SimplifyReturn

SpecSimplify == InitSimplify /\ [][NextSimplify]_vars

(***************************************************************************)
(* Proactive cache (src/soloize.py:23-223): the feed cache map and the     *)
(* tracked set behind one lock, the request path                           *)
(* fetch_and_process_calendar_cached and the background refresh loop.      *)
(* Every thread runs line by line: taking the lock, the statements under   *)
(* it, the feed request and its answer are steps of their own.  A calendar *)
(* text is <<url, n>>, n the number of the feed request it came from;      *)
(* None is <<>>.                                                           *)
(***************************************************************************)
\* The most calls the request threads begin, and the most cycles the
\* background loop begins.
MaxCalls == 2
MaxCycles == 1

\* The most cycles the loop of cache.py begins.
MaxCacheCycles == 2

\* hostname.lower()
lower(label) == IF label = "LOCALHOST" THEN "localhost" ELSE label

\* hostname.startswith(prefix), the prefix being whole labels, each with its
\* dot.
startswith(hostname, labels) ==
    /\ Len(hostname) > Len(labels)
    /\ SubSeq(hostname, 1, Len(labels)) = labels

\* validate_url (lines 32-59) raises ValueError.
validate_url_raises(url) ==
    \/ url.scheme \notin {"http", "https"}
    \/ url.hostname = <<>>
    \/ [k \in 1..Len(url.hostname) |-> lower(url.hostname[k])]
          \in {<<"localhost">>, <<"127", "0", "0", "1">>, <<"::1">>}
    \/ startswith(url.hostname, <<"192", "168">>)
    \/ startswith(url.hostname, <<"10">>)
    \/ startswith(url.hostname, <<"172">>)

\* What becomes of a feed request that was issued: the calendar is parsed,
\* filtered and serialized, or requests raises (connection error, timeout,
\* HTTP error status), or ics.Calendar raises on text it cannot parse.
Outcomes == {"ok", "RequestException", "ParseError"}

\* The exceptions the refresh loop of soloize.py catches (line 171).
caught(kind) == kind \in {"RequestException", "ValueError", "KeyError"}

\* The refresh loop of cache.py catches Exception (src/cache.py:118).
cache_caught(kind) == TRUE

\* Thread t works on the map, the set and the lock of cache.py: the functions
\* the loop of cache.py calls are the ones cache.py defines (lines 61-96).
\* Request threads run soloize.fetch_and_process_calendar_cached, which
\* calls the functions of soloize.py.
Own(t) == t = "bg" /\ loop = "cache"

\* Mutant of can_acquire: the lock is taken whether it is free or not.
acquire_unlocked == TRUE

\* `with SOLOIZE_CACHE_LOCK:` is entered when the lock is free.
can_acquire == SOLOIZE_CACHE_LOCK = "free"

\* Mutant of is_cached: the cached text is never used.
never_cached(cached) == FALSE

\* Line 211: cached is not None.
is_cached(cached) == cached # <<>>

\* Mutant of tracked_add: the URL is not enrolled.
tracked_same(tracked, url) == tracked

\* Line 137: SOLOIZE_TRACKED_URLS.add(url).
tracked_add(tracked, url) == tracked \cup {url}

\* Mutant of cache_set: the map is replaced by one that holds the new entry
\* only.
cache_set_alone(map, url, content) == (url :> content)

\* Line 136: SOLOIZE_CACHE[url] = content.
cache_set(map, url, content) == (url :> content) @@ map

\* Mutant of cache_get: a placeholder text is found for a URL that was never
\* stored.
cache_get_placeholder(url) ==
    IF url \in DOMAIN SOLOIZE_CACHE THEN SOLOIZE_CACHE[url] ELSE <<url, 0>>

\* SOLOIZE_CACHE.get(url)
cache_get(url) ==
    IF url \in DOMAIN SOLOIZE_CACHE THEN SOLOIZE_CACHE[url] ELSE <<>>

\* A call of fetch_and_process_calendar_cached that has returned or raised.
\* seen and left are how often the URL had been stored when the call looked
\* it up and when it returned.
Returned(t, text, kind, seen, left) ==
    [url |-> thread[t].url, output |-> text, raised |-> kind,
     fetches |-> IF thread[t].ticket > 0 THEN 1 ELSE 0,
     seen |-> seen, left |-> left]

\* A request thread begins fetch_and_process_calendar_cached(url).
Call ==
    /\ called < MaxCalls
    /\ \E t \in Requests : \E url \in feeds :
          /\ thread[t].pc = "idle"
          /\ thread' = [thread EXCEPT ![t] = [Locals("get") EXCEPT !.url = url]]
    /\ called' = called + 1
    /\ UNCHANGED <<SOLOIZE_CACHE, SOLOIZE_TRACKED_URLS, SOLOIZE_CACHE_LOCK,
                   fetched, stored, history, cycles, rounds, buildVars,
                   fetchVars, feedFixed, cacheModule>>

\* A thread enters the `with SOLOIZE_CACHE_LOCK:` of get_soloize_cache,
\* set_soloize_cache or get_tracked_urls.
Acquire ==
    /\ \E t \in Threads :
          /\ thread[t].pc \in {"get", "set", "snapshot"}
          /\ IF Own(t)
             THEN /\ cache_SOLOIZE_CACHE_LOCK = "free"
                  /\ cache_SOLOIZE_CACHE_LOCK' = t
                  /\ UNCHANGED SOLOIZE_CACHE_LOCK
             ELSE /\ can_acquire
                  /\ SOLOIZE_CACHE_LOCK' = t
                  /\ UNCHANGED cache_SOLOIZE_CACHE_LOCK
          /\ thread' = [thread EXCEPT ![t].pc =
                           CASE @ = "get" -> "get_locked"
                             [] @ = "set" -> "set_map"
                             [] @ = "snapshot" -> "snapshot_locked"]
    /\ UNCHANGED <<SOLOIZE_CACHE, SOLOIZE_TRACKED_URLS, fetched, stored,
                   history, called, cycles, rounds, buildVars, fetchVars,
                   feedFixed, cache_SOLOIZE_CACHE, cache_SOLOIZE_TRACKED_URLS>>

\* get_soloize_cache under the lock (line 124), and lines 210-213 after it:
\* the cached text is returned if there is one.
GetRead ==
    /\ \E t \in Requests :
          /\ thread[t].pc = "get_locked"
          /\ LET cached == cache_get(thread[t].url) IN
             IF is_cached(cached)
             THEN /\ thread' = [thread EXCEPT ![t] = Locals("idle")]
                  /\ history' = [history EXCEPT ![t] = Append(@,
                        Returned(t, cached, "none", stored[thread[t].url],
                                 stored[thread[t].url]))]
             ELSE /\ thread' = [thread EXCEPT ![t].pc = "pipeline",
                                              ![t].seen = stored[thread[t].url]]
                  /\ UNCHANGED history
    /\ SOLOIZE_CACHE_LOCK' = "free"
    /\ UNCHANGED <<SOLOIZE_CACHE, SOLOIZE_TRACKED_URLS, fetched, stored,
                   called, cycles, rounds, buildVars, fetchVars, feedFixed,
                   cacheModule>>

\* The pipeline raises kind in thread t: a request thread passes it on to its
\* caller, the background loop goes on with the next URL if it catches it and
\* ends if it does not.
Fail(t, kind) ==
    IF t \in Requests
    THEN /\ thread' = [thread EXCEPT ![t] = Locals("idle")]
         /\ history' = [history EXCEPT ![t] = Append(@,
               Returned(t, <<>>, kind, thread[t].seen, stored[thread[t].url]))]
    ELSE /\ thread' = [thread EXCEPT ![t].pc =
                          IF (IF Own(t) THEN cache_caught(kind)
                              ELSE caught(kind))
                          THEN "loop" ELSE "dead"]
         /\ UNCHANGED history

\* fetch_and_process_calendar, lines 78-82: the URL is validated and the feed
\* is requested.
Validate ==
    /\ \E t \in Threads :
          /\ thread[t].pc = "pipeline"
          /\ IF validate_url_raises(thread[t].url)
             THEN /\ Fail(t, "ValueError")
                  /\ UNCHANGED fetched
             ELSE /\ fetched' = fetched + 1
                  /\ thread' = [thread EXCEPT ![t].pc = "fetching",
                                              ![t].ticket = fetched + 1]
                  /\ UNCHANGED history
    /\ UNCHANGED <<SOLOIZE_CACHE, SOLOIZE_TRACKED_URLS, SOLOIZE_CACHE_LOCK,
                   stored, called, cycles, rounds, buildVars, fetchVars,
                   feedFixed, cacheModule>>

\* fetch_and_process_calendar, lines 82-110: the answer arrives and is
\* processed.
FetchDone ==
    /\ \E t \in Threads : \E outcome \in Outcomes :
          /\ thread[t].pc = "fetching"
          /\ IF outcome = "ok"
             THEN /\ thread' = [thread EXCEPT
                                   ![t].pc = "set",
                                   ![t].result = <<thread[t].url,
                                                   thread[t].ticket>>]
                  /\ UNCHANGED history
             ELSE Fail(t, outcome)
    /\ UNCHANGED <<SOLOIZE_CACHE, SOLOIZE_TRACKED_URLS, SOLOIZE_CACHE_LOCK,
                   fetched, stored, called, cycles, rounds, buildVars,
                   fetchVars, feedFixed, cacheModule>>

\* set_soloize_cache under the lock, line 136: SOLOIZE_CACHE[url] = content.
SetMap ==
    /\ \E t \in Threads :
          /\ thread[t].pc = "set_map"
          /\ IF Own(t)
             THEN /\ cache_SOLOIZE_CACHE' =
                        cache_set(cache_SOLOIZE_CACHE, thread[t].url,
                                  thread[t].result)
                  /\ UNCHANGED SOLOIZE_CACHE
             ELSE /\ SOLOIZE_CACHE' =
                        cache_set(SOLOIZE_CACHE, thread[t].url,
                                  thread[t].result)
                  /\ UNCHANGED cache_SOLOIZE_CACHE
          /\ thread' = [thread EXCEPT ![t].pc = "set_track"]
    /\ UNCHANGED <<SOLOIZE_TRACKED_URLS, SOLOIZE_CACHE_LOCK, fetched, stored,
                   history, called, cycles, rounds, buildVars, fetchVars,
                   feedFixed, cache_SOLOIZE_TRACKED_URLS,
                   cache_SOLOIZE_CACHE_LOCK>>

\* The record of the running cycle after a request has enrolled url: the URL
\* is noted if it is new to the tracked set and the loop is not asleep.
Enrolled(url) ==
    IF /\ thread["bg"].pc \notin {"sleep", "snapshot", "snapshot_locked",
                                  "dead"}
       /\ url \notin SOLOIZE_TRACKED_URLS
    THEN [rounds EXCEPT ![cycles].late = @ \cup {url}]
    ELSE rounds

\* set_soloize_cache under the lock, line 137, and the lock's release; a
\* request thread then returns the result (line 223), the background loop
\* goes on with the next URL.
SetTrack ==
    /\ \E t \in Threads :
          /\ thread[t].pc = "set_track"
          /\ IF Own(t)
             THEN /\ cache_SOLOIZE_TRACKED_URLS' =
                        tracked_add(cache_SOLOIZE_TRACKED_URLS, thread[t].url)
                  /\ cache_SOLOIZE_CACHE_LOCK' = "free"
                  /\ UNCHANGED <<SOLOIZE_TRACKED_URLS, SOLOIZE_CACHE_LOCK,
                                 stored>>
             ELSE /\ SOLOIZE_TRACKED_URLS' =
                        tracked_add(SOLOIZE_TRACKED_URLS, thread[t].url)
                  /\ SOLOIZE_CACHE_LOCK' = "free"
                  /\ stored' = [stored EXCEPT ![thread[t].url] = @ + 1]
                  /\ UNCHANGED <<cache_SOLOIZE_TRACKED_URLS,
                                 cache_SOLOIZE_CACHE_LOCK>>
          /\ IF t \in Requests
             THEN /\ thread' = [thread EXCEPT ![t] = Locals("idle")]
                  /\ history' = [history EXCEPT ![t] = Append(@,
                        Returned(t, thread[t].result, "none", thread[t].seen,
                                 stored[thread[t].url] + 1))]
                  /\ rounds' = Enrolled(thread[t].url)
             ELSE /\ thread' = [thread EXCEPT ![t].pc = "loop"]
                  /\ UNCHANGED <<history, rounds>>
    /\ UNCHANGED <<SOLOIZE_CACHE, fetched, called, cycles, buildVars,
                   fetchVars, feedFixed, cache_SOLOIZE_CACHE>>

\* refresh_soloize_cache_background, line 161: the sleep is over.
Wake ==
    /\ cycles < (IF loop = "cache" THEN MaxCacheCycles ELSE MaxCycles)
    /\ thread["bg"].pc = "sleep"
    /\ thread' = [thread EXCEPT !["bg"].pc = "snapshot"]
    /\ cycles' = cycles + 1
    /\ UNCHANGED <<SOLOIZE_CACHE, SOLOIZE_TRACKED_URLS, SOLOIZE_CACHE_LOCK,
                   fetched, stored, history, called, rounds, buildVars,
                   fetchVars, feedFixed, cacheModule>>

\* get_tracked_urls under the lock (line 148): a copy of the tracked set.
Snapshot ==
    /\ thread["bg"].pc = "snapshot_locked"
    /\ LET tracked == IF Own("bg") THEN cache_SOLOIZE_TRACKED_URLS
                      ELSE SOLOIZE_TRACKED_URLS
       IN  /\ thread' = [thread EXCEPT !["bg"].pc = "loop",
                                       !["bg"].tracked = tracked]
           /\ rounds' = Append(rounds, [snapshot |-> tracked, done |-> {},
                                        runs |-> 0, late |-> {}])
    /\ IF Own("bg")
       THEN /\ cache_SOLOIZE_CACHE_LOCK' = "free"
            /\ UNCHANGED SOLOIZE_CACHE_LOCK
       ELSE /\ SOLOIZE_CACHE_LOCK' = "free"
            /\ UNCHANGED cache_SOLOIZE_CACHE_LOCK
    /\ UNCHANGED <<SOLOIZE_CACHE, SOLOIZE_TRACKED_URLS, fetched, stored,
                   history, called, cycles, buildVars, fetchVars, feedFixed,
                   cache_SOLOIZE_CACHE, cache_SOLOIZE_TRACKED_URLS>>

\* `for url in tracked` (line 166): the next URL of the copy, in any order, or
\* back to the sleep when there is none left.
NextUrl ==
    /\ thread["bg"].pc = "loop"
    /\ IF thread["bg"].tracked = {}
       THEN /\ thread' = [thread EXCEPT !["bg"] = Locals("sleep")]
            /\ UNCHANGED rounds
       ELSE \E url \in thread["bg"].tracked :
               /\ thread' = [thread EXCEPT
                                !["bg"] = [Locals("pipeline") EXCEPT
                                              !.url = url,
                                              !.tracked = thread["bg"].tracked
                                                             \ {url}]]
               /\ rounds' = [rounds EXCEPT ![cycles].done = @ \cup {url},
                                           ![cycles].runs = @ + 1]
    /\ UNCHANGED <<SOLOIZE_CACHE, SOLOIZE_TRACKED_URLS, SOLOIZE_CACHE_LOCK,
                   fetched, stored, history, called, cycles, buildVars,
                   fetchVars, feedFixed, cacheModule>>

InitSoloize ==
    /\ op = "soloize"
    /\ periods = <<>>
    /\ Start

NextSoloize ==
    \/ Call
    \/ Acquire
    \/ GetRead
    \/ Validate
    \/ FetchDone
    \/ SetMap
    \/ SetTrack
    \/ Wake
    \/ Snapshot
    \/ NextUrl

SpecSoloize == InitSoloize /\ [][NextSoloize]_vars

\* The same service when the application starts the refresh loop with
\* cache.start_background_refresh (src/cache.py:122-131).
InitCacheLoop ==
    /\ op = "soloize"
    /\ periods = <<>>
    /\ BuildIdle
    /\ FetchIdle
    /\ FeedStarted("cache", FeedUrls)

SpecCacheLoop == InitCacheLoop /\ [][NextSoloize]_vars

\* The service of soloize.py when callers pass it hostile URLs.
InitHostile ==
    /\ op = "soloize"
    /\ periods = <<>>
    /\ BuildIdle
    /\ FetchIdle
    /\ FeedStarted("soloize", HostileUrls)

SpecHostile == InitHostile /\ [][NextSoloize]_vars

(***************************************************************************)
(* Properties of the block aggregator, checked under Spec.                 *)
(***************************************************************************)
IsPrefix(a, b) == Len(a) <= Len(b) /\ SubSeq(b, 1, Len(a)) = a

\* The predicate returns true for period k (it returns nothing when it raises).
Interesting(k) ==
    ~interest_raises(op, periods[k]) /\ interest_fn(op, periods[k])

\* The periods of the input the predicate is true for, in input order.
InterestingRefs == SelectSeq(Refs(Len(periods)), Interesting)

\* Block b holds period k.
Holds(b, k) == \E a \in 1..Len(b) : b[a] = k

\* C1: the blocks weather_blocks has emitted, concatenated in emission order,
\* are at every moment an initial part of the subsequence of the input periods
\* the predicate is true for (so they are disjoint, in input order, and hold
\* no period the predicate is false for), and when weather_blocks returns they
\* are that whole subsequence: no interesting period is dropped or duplicated.
C1_BlocksConcatenateToInteresting ==
    op \in InterestFns =>
        /\ IsPrefix(Flatten(blocks), InterestingRefs)
        /\ pc = "done" => Flatten(blocks) = InterestingRefs

\* A finished scan that emitted several blocks and skipped a period.
C1_Witness ==
    /\ op \in InterestFns
    /\ pc = "done"
    /\ Len(blocks) >= 2
    /\ Len(InterestingRefs) < Len(periods)

\* C2: with the rain predicate all periods of a block (emitted or still open)
\* have the same shortForecast; with another predicate two interesting periods
\* that follow one another in the input are in the same block, whatever their
\* shortForecast.
C2_RainBlocksShareForecast ==
    /\ op = "rain" =>
          \A b \in {blocks[j] : j \in 1..Len(blocks)} \cup {current_block} :
             \A a, c \in 1..Len(b) :
                periods[b[a]].shortForecast = periods[b[c]].shortForecast
    /\ (op \in InterestFns \ {"rain"} /\ pc = "done") =>
          \A k \in 1..(Len(periods) - 1) :
             (Interesting(k) /\ Interesting(k + 1)) =>
                \E j \in 1..Len(blocks) :
                   Holds(blocks[j], k) /\ Holds(blocks[j], k + 1)

\* Two rainy periods in a row with different forecast texts, emitted as two
\* blocks.
C2_Witness ==
    /\ op = "rain"
    /\ pc = "done"
    /\ \E j \in 1..(Len(blocks) - 1) :
          /\ blocks[j + 1][1] = Last(blocks[j]) + 1
          /\ periods[blocks[j + 1][1]].shortForecast
                # periods[blocks[j][1]].shortForecast

\* C3: the periods of an emitted block are adjacent in the input, and between
\* two blocks emitted one after the other there is a period that is not
\* interesting, or (rain only) the later block starts with a shortForecast
\* other than the earlier block's.
C3_BlocksAreMaximalRuns ==
    op \in InterestFns =>
        /\ \A j \in 1..Len(blocks) : \A a \in 1..(Len(blocks[j]) - 1) :
              blocks[j][a + 1] = blocks[j][a] + 1
        /\ \A j \in 1..(Len(blocks) - 1) :
              \/ \E k \in (Last(blocks[j]) + 1)..(blocks[j + 1][1] - 1) :
                    ~Interesting(k)
              \/ /\ op = "rain"
                 /\ periods[blocks[j + 1][1]].shortForecast
                       # periods[blocks[j][1]].shortForecast

\* Two blocks of a predicate other than rain, with a gap between them.
C3_Witness ==
    /\ op \in InterestFns \ {"rain"}
    /\ pc = "done"
    /\ Len(blocks) = 2
    /\ blocks[2][1] > Last(blocks[1]) + 1

\* C4: no emitted block is empty, and a scan of an input with no interesting
\* period (the empty input included) ends with no block emitted.
C4_NoEmptyBlock ==
    op \in InterestFns =>
        /\ \A j \in 1..Len(blocks) : blocks[j] # <<>>
        /\ (pc = "done" /\ InterestingRefs = <<>>) => blocks = <<>>

\* A finished scan of a non-empty input with no interesting period.
C4_Witness ==
    /\ op \in InterestFns
    /\ pc = "done"
    /\ periods # <<>>
    /\ InterestingRefs = <<>>
    /\ blocks = <<>>

(***************************************************************************)
(* Properties of the day grouping and of the best-weather builder, checked *)
(* under SpecDays.                                                         *)
(***************************************************************************)
IsDaytimeRef(k) == periods[k].isDaytime

\* The daytime periods of the input, in input order.
DaytimeRefs == SelectSeq(Refs(Len(periods)), IsDaytimeRef)

\* The calendar date of a period: the first ten characters of its startTime.
CalendarDate(k) == Take(periods[k].startTime, 10)

\* A date as a number, 2022-01-02 as 20220102.
IsDigit(c) == \E d \in 0..9 : Digits[d + 1] = c
DateNumber(date) == ParseInt(SelectSeq(date, IsDigit))

\* The dates of the input never go back.
DatesNonDecreasing ==
    \A k \in 1..(Len(periods) - 1) :
       DateNumber(CalendarDate(k)) <= DateNumber(CalendarDate(k + 1))

\* days has yielded its last group.
DaysExhausted == yield_at = "final"

\* C5: every window days has emitted holds only daytime periods of one
\* calendar date; the windows, concatenated in emission order, are at every
\* moment an initial part of the daytime subsequence of the input and, once
\* days has emitted its last group, that whole subsequence; and when the dates
\* of the input never go back, no two windows are of the same date (so the
\* window of a date holds all daytime periods of that date).
C5_DayWindowsGroupDaytimeByDate ==
    op = "best" =>
        /\ \A j \in 1..Len(windows) : \A a \in 1..Len(windows[j]) :
              /\ periods[windows[j][a]].isDaytime
              /\ CalendarDate(windows[j][a]) = CalendarDate(windows[j][1])
        /\ IsPrefix(Flatten(windows), DaytimeRefs)
        /\ DaysExhausted => Flatten(windows) = DaytimeRefs
        /\ DatesNonDecreasing =>
              \A j, l \in 1..Len(windows) :
                 (j # l /\ windows[j] # <<>> /\ windows[l] # <<>>) =>
                    CalendarDate(windows[j][1]) # CalendarDate(windows[l][1])

\* A finished build over dates that never go back: two windows, one of them
\* of two periods.
C5_Witness ==
    /\ op = "best"
    /\ pc = "done"
    /\ DatesNonDecreasing
    /\ Len(windows) = 2
    /\ \E j \in 1..2 : Len(windows[j]) = 2

\* C6: every group emitted by days holds at least one period.
C6_DayWindowNeverEmpty ==
    op = "best" => \A j \in 1..Len(windows) : windows[j] # <<>>

\* C7: on a payload with no daytime period the best-weather builder raises no
\* error and returns a calendar with no event.
C7_BestBuilderToleratesNoDaytime ==
    (op = "best" /\ DaytimeRefs = <<>>) =>
        /\ raised = "none"
        /\ events = <<>>

\* The key the ranking is specified by: (max(probability, 33),
\* |70 - temperature|, leading integer of windSpeed).
RankKey(k) ==
    LET p == periods[k]
        pop == Val(p.probabilityOfPrecipitation)
        t == p.temperature
    IN  << IF pop > 33 THEN pop ELSE 33,
           IF t > 70 THEN t - 70 ELSE 70 - t,
           ParseInt(SplitFirst(p.windSpeed, " ")) >>

\* The period event j was built from: the one of window j whose startTime is
\* the event's begin (the periods of a payload start at different hours).
Chosen(j) ==
    CHOOSE k \in {windows[j][a] : a \in 1..Len(windows[j])} :
       periods[k].startTime = events[j].begin

\* C8: the event built for a day window is built from a period of the window
\* whose key no other period of the window is below, and which comes before
\* every other period of the window with the same key.
C8_BestPeriodHasLeastKey ==
    op = "best" =>
        \A j \in 1..Len(events) :
           /\ \E a \in 1..Len(windows[j]) :
                 periods[windows[j][a]].startTime = events[j].begin
           /\ \A a \in 1..Len(windows[j]) :
                 LET k == windows[j][a] IN
                 /\ ~TupleLess(RankKey(k), RankKey(Chosen(j)))
                 /\ RankKey(k) = RankKey(Chosen(j)) => Chosen(j) <= k

\* The example: keys (40, 2, 5) and (33, 0, 10), and the second period chosen.
C8_Witness ==
    /\ op = "best"
    /\ \E j \in 1..Len(events) :
          /\ Len(windows[j]) = 2
          /\ RankKey(windows[j][1]) = <<40, 2, 5>>
          /\ RankKey(windows[j][2]) = <<33, 0, 10>>
          /\ Chosen(j) = windows[j][2]

(***************************************************************************)
(* Properties of the classifier, checked under Spec.                       *)
(***************************************************************************)
\* C9: a period whose probability of precipitation is null is handled as one
\* of probability 0: the build it is part of raises no error, and is_rainy is
\* false for it.
C9_NullProbabilityIsZero ==
    \A k \in 1..i :
       IsNull(periods[k].probabilityOfPrecipitation) =>
          /\ raised = "none"
          /\ (op = "rain" /\ k = i) => ~of_interest

\* The thresholds as the classifier is specified.
Specified(fn, p) ==
    CASE fn = "rain" -> Val(p.probabilityOfPrecipitation) > 33
      [] fn = "warm" -> p.temperature >= 68
      [] fn = "comfortable" -> 68 <= p.temperature /\ p.temperature <= 72
      [] fn = "cool" -> p.temperature <= 72 /\ p.dewpoint <= 155556

\* C10: the value the predicate returned for the period the scan is at is the
\* specified one: rainy iff probability > 33, warm iff temperature >= 68,
\* comfortable iff 68 <= temperature <= 72, cool iff temperature <= 72 and
\* dewpoint <= 15.5556; and for every period of the payload comfortable
\* implies warm, and comfortable with dewpoint <= 15.5556 implies cool.
C10_ClassifierThresholds ==
    /\ (op \in InterestFns /\ i >= 1 /\ ~interest_raises(op, periods[i])) =>
          of_interest = Specified(op, periods[i])
    /\ \A k \in 1..Len(periods) :
          /\ is_comfortable(periods[k]) => is_warm(periods[k])
          /\ (is_comfortable(periods[k]) /\ periods[k].dewpoint <= 155556) =>
                is_cool(periods[k])

\* The example: 70 F with dewpoint 10 C found cool, after 73 F with dewpoint
\* 10 C was not.
C10_Witness ==
    /\ op = "cool"
    /\ i = 2
    /\ periods[1].temperature = 73 /\ periods[1].dewpoint = 100000
    /\ periods[2].temperature = 70 /\ periods[2].dewpoint = 100000
    /\ of_interest
    /\ blocks = <<>> /\ current_block = <<2>>

(***************************************************************************)
(* Event identity of the best-weather calendar, checked under SpecDays.    *)
(***************************************************************************)
\* The calendar date an event begins on: the first 10 characters of begin.
EventDate(e) == Take(e.begin, 10)

\* C11: the UID of a best-weather event is derived from the calendar date of
\* the chosen period and from nothing else: two events whose chosen periods
\* are of the same date have the same UID whatever their time of day,
\* forecast and temperature, and two events of different dates have UIDs
\* derived from different strings.
C11_BestUidFromDateOnly ==
    op = "best" =>
        \A j \in 1..Len(events) : \A l \in 1..Len(events) :
            /\ events[j].uid = create_uid(EventDate(events[j]))
            /\ EventDate(events[j]) = EventDate(events[l])
                   => events[j].uid = events[l].uid
            /\ EventDate(events[j]) # EventDate(events[l])
                   => events[j].uid.sha1 # events[l].uid.sha1

\* Two events of one date whose chosen periods differ in time of day,
\* forecast and temperature, next to an event of another date.
C11_Witness ==
    /\ op = "best"
    /\ \E j \in 1..Len(events) : \E l \in 1..Len(events) :
           /\ EventDate(events[j]) = EventDate(events[l])
           /\ events[j].begin # events[l].begin
           /\ events[j].name # events[l].name
           /\ events[j].description # events[l].description
           /\ events[j].uid = events[l].uid
    /\ \E j \in 1..Len(events) : \E l \in 1..Len(events) :
           EventDate(events[j]) # EventDate(events[l])

CallStep == ops' = ops + 1 /\ now' = now

\* The pool a call went through, and that pool's time to live.
PoolOfCall(fn) ==
    IF fn = "fetch_gridpoint" THEN GRIDPOINT_CACHE ELSE FORECAST_CACHE
TtlOfCall(fn) == IF fn = "fetch_gridpoint" THEN GRIDPOINT_TTL ELSE FORECAST_TTL

\* The pool holds a response for url that was fetched less than ttl ago.
FetchedWithin(c, url, ttl) ==
    \E k \in 1..Len(c) : c[k].key = url /\ now < c[k].value.date + ttl

\* C13: a call for a URL whose response the pool stored less than the pool's
\* TTL ago returns that stored response and issues no network call; a call
\* for a URL with no such entry issues exactly one network call, and a
\* response is never returned from the pool once its TTL has elapsed.
C13_ServedFromPoolWithinTtl ==
    [][CallStep =>
          LET fn == last'.fn
              url == last'.url
              c == PoolOfCall(fn)
          IN  IF FetchedWithin(c, url, TtlOfCall(fn))
              THEN /\ ~last'.network
                   /\ calls' = calls
                   /\ last'.response = <<c[Index(c, url)].value>>
              ELSE /\ last'.network
                   /\ calls' = calls + 1
                   /\ \A r \in {c[k].value : k \in 1..Len(c)} :
                         last'.response # <<r>>]_vars

\* A URL the forecast pool held since time 0 is asked for again at the second
\* its TTL has elapsed: the response comes from the network.
C13_Witness ==
    /\ last # <<>>
    /\ last.fn = "fetch_url"
    /\ last.url = Url("forecast", 1)
    /\ last.at = FORECAST_TTL
    /\ last.network
    /\ last.response = <<Response(last.url, 200, FORECAST_TTL, calls)>>
    /\ calls > FORECAST_MAXSIZE
    /\ Hit(FORECAST_CACHE, last.url, now)

\* C14: an upstream answer of any status other than 200 is a failure: the
\* call raises, and no pool ever stores a response of another status.
C14_Non200IsFailure ==
    /\ \A k \in 1..Len(FORECAST_CACHE) : FORECAST_CACHE[k].value.status = 200
    /\ \A k \in 1..Len(GRIDPOINT_CACHE) : GRIDPOINT_CACHE[k].value.status = 200
    /\ last # <<>> /\ last.response # <<>> => last.response[1].status = 200

\* The live entries of a pool, and the keys a pool stores.
LiveCount(c) == Cardinality({k \in 1..Len(c) : Live(c[k], now)})
Keys(c) == {c[k].key : k \in 1..Len(c)}

\* The key of c that was inserted or read longest ago.
LeastRecentlyUsed(c) ==
    (CHOOSE e \in {c[k] : k \in 1..Len(c)} :
        \A k \in 1..Len(c) : e.used <= c[k].used).key

\* In a step, a new key came into a full pool c that held no expired entry.
Overflows(c, cNext, maxsize) ==
    /\ Len(c) = maxsize
    /\ \A k \in 1..Len(c) : Live(c[k], now)
    /\ Keys(cNext) \ Keys(c) # {}

\* C15: the forecast pool never holds more than 10 entries and the gridpoint
\* pool never more than 42, expired or not, and a new key that comes into a
\* full pool with no expired entry takes the place of the least recently
\* used key and of no other.
C15_CapacityAndLruEviction ==
    /\ [](/\ Len(FORECAST_CACHE) <= 10
          /\ LiveCount(FORECAST_CACHE) <= 10
          /\ Len(GRIDPOINT_CACHE) <= 42
          /\ LiveCount(GRIDPOINT_CACHE) <= 42)
    /\ [][/\ Overflows(FORECAST_CACHE, FORECAST_CACHE', FORECAST_MAXSIZE)
             => Keys(FORECAST_CACHE) \ Keys(FORECAST_CACHE')
                   = {LeastRecentlyUsed(FORECAST_CACHE)}
          /\ Overflows(GRIDPOINT_CACHE, GRIDPOINT_CACHE', GRIDPOINT_MAXSIZE)
             => Keys(GRIDPOINT_CACHE) \ Keys(GRIDPOINT_CACHE')
                   = {LeastRecentlyUsed(GRIDPOINT_CACHE)}]_vars

\* The full forecast pool after its oldest URL was read and a new URL was
\* fetched: the second oldest URL is gone, the oldest is still there.
C15_Witness ==
    /\ now = 0
    /\ Len(FORECAST_CACHE) = FORECAST_MAXSIZE
    /\ Has(FORECAST_CACHE, Url("forecast", FORECAST_MAXSIZE + 1))
    /\ Has(FORECAST_CACHE, Url("forecast", 1))
    /\ ~Has(FORECAST_CACHE, Url("forecast", 2))

\* C16: a gridpoint lookup goes through the gridpoint pool: it takes no slot
\* of the forecast pool, and the response a lookup has returned is held by
\* the gridpoint pool until 77410 seconds after it was fetched.
C16_GridpointLookupsUseGridpointPool ==
    /\ \A k \in 1..Len(FORECAST_CACHE) : FORECAST_CACHE[k].key.kind # "points"
    /\ (/\ last # <<>>
        /\ last.fn = "get_gridpoint"
        /\ last.response # <<>>
        /\ now < last.response[1].date + GRIDPOINT_TTL)
          => \E k \in 1..Len(GRIDPOINT_CACHE) :
                GRIDPOINT_CACHE[k].value = last.response[1]

(***************************************************************************)
(* Properties of the proactive cache, checked under SpecSoloize.           *)
(***************************************************************************)
\* C17: when a thread calls fetch_and_process_calendar_cached twice in
\* succession for one URL, the first call returning a calendar and nothing
\* storing the URL between the first call's return and the second call's
\* lookup, the second call returns the same text and issues no feed request:
\* the two calls issue one request if the URL had never been stored before
\* the first, and none otherwise.
C17_SecondCallServedFromCache ==
    \A t \in Requests : \A k \in 1..(Len(history[t]) - 1) :
        LET first == history[t][k]
            second == history[t][k + 1]
        IN  (/\ first.url = second.url
             /\ first.raised = "none"
             /\ second.seen = first.left)
            => /\ second.raised = "none"
               /\ second.output = first.output
               /\ second.fetches = 0
               /\ first.fetches + second.fetches
                     = IF first.seen = 0 THEN 1 ELSE 0

\* A thread has called twice for one URL: the first call fetched the feed,
\* the second returned the first call's text without a request.
C17_Witness ==
    \E t \in Requests :
        /\ Len(history[t]) = 2
        /\ history[t][1].url = history[t][2].url
        /\ history[t][1].fetches = 1
        /\ history[t][2].fetches = 0
        /\ history[t][2].seen = history[t][1].left
        /\ history[t][2].output = history[t][1].output
        /\ history[t][1].output # <<>>
        /\ fetched = 1

\* The positions of a thread inside a `with SOLOIZE_CACHE_LOCK:` block.
Critical == {"get_locked", "set_map", "set_track", "snapshot_locked"}

\* C18: at most one thread is inside get_soloize_cache, set_soloize_cache or
\* get_tracked_urls, and that thread holds the lock; the map and the tracked
\* set change only in a step of the thread that holds the lock; no thread
\* holds the lock while it validates, fetches or processes a feed, so that
\* the lock is free, or about to be released, while a pipeline run is in
\* flight.
C18_LockGuardsMapNotPipeline ==
    /\ [](/\ Cardinality({t \in Threads : thread[t].pc \in Critical}) <= 1
          /\ \A t \in Threads :
                thread[t].pc \in Critical <=> SOLOIZE_CACHE_LOCK = t
          /\ \A t \in Threads :
                thread[t].pc \in {"pipeline", "fetching"}
                   => SOLOIZE_CACHE_LOCK # t)
    /\ [][(\/ SOLOIZE_CACHE' # SOLOIZE_CACHE
           \/ SOLOIZE_TRACKED_URLS' # SOLOIZE_TRACKED_URLS)
          => /\ SOLOIZE_CACHE_LOCK \in Threads
             /\ thread[SOLOIZE_CACHE_LOCK].pc \in Critical
             /\ thread'[SOLOIZE_CACHE_LOCK] # thread[SOLOIZE_CACHE_LOCK]]_vars

\* A request thread is inside get_soloize_cache, holding the lock, while the
\* background loop waits for the answer to a feed request.
C18_Witness ==
    /\ thread["bg"].pc = "fetching"
    /\ \E t \in Requests :
          /\ thread[t].pc = "get_locked"
          /\ SOLOIZE_CACHE_LOCK = t
          /\ thread[t].url = thread["bg"].url

\* No thread is between the two statements of set_soloize_cache.
SetIsWhole == \A t \in Threads : thread[t].pc # "set_track"

\* C19: whenever no thread is in the middle of set_soloize_cache, which is
\* whenever the lock is free or held by a reader, the tracked set is the key
\* set of the feed cache map; and the two change only in steps of
\* set_soloize_cache, by the URL that is being set.
C19_TrackedSetIsKeySet ==
    /\ [](SetIsWhole => SOLOIZE_TRACKED_URLS = DOMAIN SOLOIZE_CACHE)
    /\ [][(\/ DOMAIN SOLOIZE_CACHE' # DOMAIN SOLOIZE_CACHE
           \/ SOLOIZE_TRACKED_URLS' # SOLOIZE_TRACKED_URLS)
          => \E t \in Threads :
                /\ thread[t].pc \in {"set_map", "set_track"}
                /\ DOMAIN SOLOIZE_CACHE'
                      \subseteq DOMAIN SOLOIZE_CACHE \cup {thread[t].url}
                /\ SOLOIZE_TRACKED_URLS'
                      \subseteq SOLOIZE_TRACKED_URLS \cup {thread[t].url}
                /\ DOMAIN SOLOIZE_CACHE \subseteq DOMAIN SOLOIZE_CACHE'
                /\ SOLOIZE_TRACKED_URLS \subseteq SOLOIZE_TRACKED_URLS']_vars

\* Two URLs have been stored, one of them twice (the second time by the
\* background loop), and the lock is free.
C19_Witness ==
    /\ SOLOIZE_CACHE_LOCK = "free"
    /\ Cardinality(SOLOIZE_TRACKED_URLS) = 2
    /\ SOLOIZE_TRACKED_URLS = DOMAIN SOLOIZE_CACHE
    /\ \E url \in FeedUrls : stored[url] = 2

\* C20: no failure of the pipeline ends the background loop: after a
\* failure for one URL the loop goes on with the remaining URLs of the cycle
\* and with the next cycle.
C20_RefreshLoopSurvivesFailures ==
    thread["bg"].pc # "dead"

(***************************************************************************)
(* Properties of the refresh loop, whichever module's loop the application  *)
(* started: SpecSoloize has the loop of soloize.py, SpecCacheLoop the loop  *)
(* of cache.py.                                                            *)
(***************************************************************************)
\* A cycle of the background loop is running: it has taken its snapshot and
\* has not gone back to sleep.
Running ==
    thread["bg"].pc \in {"loop", "pipeline", "fetching", "set", "set_map",
                         "set_track"}

\* C21: every URL for which fetch_and_process_calendar_cached has returned a
\* calendar is refreshed by the background loop: while a cycle runs, the URL
\* is in the snapshot the cycle works on, or was enrolled after the snapshot
\* was taken; and when a refresh of the loop has succeeded,
\* get_soloize_cache(url) returns its result.
C21_StoredUrlsAreRefreshed ==
    /\ [](Running =>
            \A t \in Requests : \A k \in 1..Len(history[t]) :
               history[t][k].raised = "none"
                  => history[t][k].url \in rounds[cycles].snapshot
                                              \cup rounds[cycles].late)
    /\ [][(thread["bg"].pc = "set_track" /\ thread'["bg"].pc = "loop")
          => /\ thread["bg"].url \in DOMAIN SOLOIZE_CACHE'
             /\ SOLOIZE_CACHE'[thread["bg"].url] = thread["bg"].result]_vars

(***************************************************************************)
(* Properties of the feed URL validation, checked under SpecHostile.       *)
(***************************************************************************)
\* The host is the machine itself: the name localhost, an address of
\* 127.0.0.0/8, or ::1.
IsLoopback(hostname) ==
    \/ [k \in 1..Len(hostname) |-> lower(hostname[k])] = <<"localhost">>
    \/ hostname = <<"::1">>
    \/ Len(hostname) = 4 /\ hostname[1] = "127"

\* The host is an address of 10.0.0.0/8, 172.16.0.0/12 or 192.168.0.0/16.
IsPrivate(hostname) ==
    /\ Len(hostname) = 4
    /\ \/ hostname[1] = "10"
       \/ hostname[1] = "192" /\ hostname[2] = "168"
       \/ /\ hostname[1] = "172"
          /\ hostname[2] \in {"16", "17", "18", "19", "20", "21", "22", "23",
                               "24", "25", "26", "27", "28", "29", "30", "31"}

\* A URL the pipeline is to reject.
Disallowed(url) ==
    \/ url.scheme \notin {"http", "https"}
    \/ url.hostname = <<>>
    \/ IsLoopback(url.hostname)
    \/ IsPrivate(url.hostname)

\* C22: a call for a URL with a scheme other than http and https, with no
\* hostname or with a loopback or private host raises ValueError without a
\* feed request; no thread requests, or stores, such a URL; and the feed
\* cache map and the tracked set hold no such URL.
C22_DisallowedUrlsAreRejected ==
    /\ \A t \in Requests : \A k \in 1..Len(history[t]) :
          Disallowed(history[t][k].url)
             => /\ history[t][k].raised = "ValueError"
                /\ history[t][k].fetches = 0
                /\ history[t][k].output = <<>>
    /\ \A t \in Threads :
          thread[t].pc \in {"fetching", "set", "set_map", "set_track"}
             => ~Disallowed(thread[t].url)
    /\ \A url \in SOLOIZE_TRACKED_URLS \cup DOMAIN SOLOIZE_CACHE :
          ~Disallowed(url)

(***************************************************************************)
(* Failures of the forecast path, checked under SpecFetch.                 *)
(***************************************************************************)
\* C23: when a call of nws.fetch_url or get_gridpoint asks the upstream and
\* gets a status other than 200, or no response at all, the call raises the
\* HTTP failure of flask.abort, with the upstream's response when there is
\* one; the call raises nothing else; and a call issues at most one upstream
\* request.
C23_FetchFailureIsSurfaced ==
    /\ []((last # <<>> /\ last.fn \in {"fetch_url", "get_gridpoint"})
          => /\ last.raised \in {"none", "HTTPException"}
             /\ (last.network /\ last.upstream # <<200>>)
                   => /\ last.raised = "HTTPException"
                      /\ last.response = <<>>
                      /\ last.upstream # <<NoResponse>>
                            => /\ last.err_response # <<>>
                               /\ last.err_response[1].status
                                     = last.upstream[1])
    /\ [][CallStep => calls' \in {calls, calls + 1}]_vars

(***************************************************************************)
(* Properties of simplify_gridpoint, checked under SpecSimplify.           *)
(***************************************************************************)
\* C24: when simplify_gridpoint returns, it has made at most as many lookups
\* as the arguments have decimals; the pair it returns resolves to the
\* forecast URL of the arguments; and no rounding of the arguments to fewer
\* decimals than the pair was rounded to, down to none, is another pair that
\* resolves to that URL.
C24_SimplifyReturnsLowestPrecision ==
    simplify_pc = "done"
       => /\ lookups <= (IF decimals(lat) > decimals(lon) THEN decimals(lat)
                         ELSE decimals(lon))
          /\ forecastHourly(last_lat, last_lon) = forecastHourly(lat, lon)
          /\ \A fewer \in 0..(kept - 1) :
                \E rounded_lat \in round(lat, fewer) :
                \E rounded_lon \in round(lon, fewer) :
                   \/ <<rounded_lat, rounded_lon>> = <<last_lat, last_lon>>
                   \/ forecastHourly(rounded_lat, rounded_lon)
                         # forecastHourly(lat, lon)

(***************************************************************************)
(* Properties of the reactive cache under concurrency, checked under       *)
(* SpecHerd.                                                               *)
(***************************************************************************)
\* Two calls of cache.fetch_url missed on one URL at the same time: one
\* missed while the other had missed and not returned.
Raced(a, b) == a.url = b.url /\ (a.id \in b.raced \/ b.id \in a.raced)

\* The upstream answered the call's request with a response request_url
\* returns.
Answered(a) == a.raised \notin {"HTTPError", "ConnectionError"}

\* How many entries the forecast pool holds under the key.
Entries(key) ==
    Cardinality({k \in 1..Len(FORECAST_CACHE) : FORECAST_CACHE[k].key = key})

\* C25: of two calls by different threads that missed on one URL at the
\* same time and whose requests the upstream answered, each has issued a
\* request of its own and each has returned a response, the one its own
\* request fetched; once both threads are back and these were their latest
\* calls, the forecast pool holds one entry for the URL, and its value is the
\* response of one of the two; and a thread that writes its entry leaves the
\* pool holding its response for the URL.
C25_ConcurrentMissesAllSucceed ==
    /\ [](\A t \in Requests : \A u \in Requests \ {t} :
          \A i1 \in 1..Len(returns[t]) : \A i2 \in 1..Len(returns[u]) :
             LET a == returns[t][i1]
                 b == returns[u][i2]
             IN  (Raced(a, b) /\ Answered(a) /\ Answered(b))
                 => /\ a.network /\ b.network
                    /\ a.raised = "none" /\ b.raised = "none"
                    /\ a.response # <<>> /\ b.response # <<>>
                    /\ a.response # b.response
                    /\ (/\ i1 = Len(returns[t])
                        /\ i2 = Len(returns[u])
                        /\ \A r \in Requests : worker[r].pc = "idle")
                          => /\ Entries(a.url) = 1
                             /\ <<FORECAST_CACHE[Index(FORECAST_CACHE,
                                                       a.url)].value>>
                                   \in {a.response, b.response})
    /\ [][\A t \in Requests :
             (worker[t].pc = "write" /\ worker'[t].pc = "idle")
                => /\ Has(FORECAST_CACHE', worker[t].url)
                   /\ <<FORECAST_CACHE'[Index(FORECAST_CACHE',
                                              worker[t].url)].value>>
                         = worker[t].response]_vars

(***************************************************************************)
(* Re-sorting a day window, checked under SpecDays.                        *)
(***************************************************************************)
\* The keys of the window's periods can all be computed.
Rankable(day) ==
    \A a \in 1..Len(day) : ~forecast_desirability_raises(periods[day[a]])

\* C26: for every day window whose keys can be computed, sorting the sorted
\* window gives the sorted window again, in the same order, and so does a
\* third sort; the first period of a window that is not empty, the one the
\* event is built from, is the same after each.
C26_ResortingIsIdempotent ==
    op = "best" =>
        \A j \in 1..Len(windows) :
           Rankable(windows[j]) =>
              /\ sorted(sorted(windows[j])) = sorted(windows[j])
              /\ sorted(sorted(sorted(windows[j]))) = sorted(windows[j])
              /\ windows[j] # <<>> =>
                    sorted(sorted(windows[j]))[1] = sorted(windows[j])[1]

\* A window of three periods that sorting reorders, two of them of equal key,
\* and its event built.
C26_Witness ==
    /\ op = "best"
    /\ \E j \in 1..Len(events) :
          /\ Len(windows[j]) = 3
          /\ Rankable(windows[j])
          /\ sorted(windows[j]) # windows[j]
          /\ \E a, b \in 1..3 :
                /\ a < b
                /\ RankKey(windows[j][a]) = RankKey(windows[j][b])

(***************************************************************************)
(* Persistence of the proactive cache, checked under SpecSoloize.          *)
(***************************************************************************)
\* The step is the store of a pipeline run that succeeded: thread t is at
\* line 136 of set_soloize_cache with the text its own feed request produced.
StoresResult(t) ==
    /\ thread[t].pc = "set_map"
    /\ thread[t].ticket > 0
    /\ thread[t].result = <<thread[t].url, thread[t].ticket>>
    /\ thread'[t].pc = "set_track"

\* The step ends a refresh of the background loop with an error.
RefreshFails ==
    /\ thread["bg"].pc \in {"pipeline", "fetching"}
    /\ thread'["bg"].pc \in {"loop", "dead"}

\* C27: the URL of every call that returned a text has an entry in the map;
\* no step removes a key of the map or an element of the tracked set; a step
\* that ends a background refresh with an error leaves the map and the
\* tracked set as they were; and a step that changes the map is the store of
\* a pipeline run that succeeded, which changes the entry of its URL only, to
\* its result.
C27_EntriesPersist ==
    /\ [](\A t \in Requests : \A n \in 1..Len(history[t]) :
             history[t][n].raised = "none"
                => /\ history[t][n].url \in DOMAIN SOLOIZE_CACHE
                   /\ cache_get(history[t][n].url) # <<>>)
    /\ [][/\ DOMAIN SOLOIZE_CACHE \subseteq DOMAIN SOLOIZE_CACHE'
          /\ SOLOIZE_TRACKED_URLS \subseteq SOLOIZE_TRACKED_URLS'
          /\ RefreshFails =>
                /\ SOLOIZE_CACHE' = SOLOIZE_CACHE
                /\ SOLOIZE_TRACKED_URLS' = SOLOIZE_TRACKED_URLS
          /\ SOLOIZE_CACHE' # SOLOIZE_CACHE =>
                \E t \in Threads :
                   /\ StoresResult(t)
                   /\ SOLOIZE_CACHE'[thread[t].url] = thread[t].result
                   /\ \A url \in DOMAIN SOLOIZE_CACHE \ {thread[t].url} :
                         SOLOIZE_CACHE'[url] = SOLOIZE_CACHE[url]]_vars

\* A request stored the feed with the first feed request, the background
\* loop refreshed it with the second, the refresh failed and the loop is
\* asleep again; another feed is cached beside it.
C27_Witness ==
    /\ cycles = 1
    /\ thread["bg"].pc = "sleep"
    /\ \E url \in rounds[1].done :
          /\ stored[url] = 1
          /\ SOLOIZE_CACHE[url] = <<url, 1>>
          /\ fetched >= 2
          /\ \A t \in Requests : thread[t].ticket # 2
          /\ \E other \in DOMAIN SOLOIZE_CACHE : other # url

(***************************************************************************)
(* The cycles of the background loop, checked under SpecCacheLoop.         *)
(***************************************************************************)
\* The background loop is inside the pipeline or the store of one URL.
Refreshing ==
    thread["bg"].pc \in {"pipeline", "fetching", "set", "set_map",
                         "set_track"}

\* Cycle c is over: a later cycle has begun, or the loop sleeps or has ended.
CycleOver(c) == c < cycles \/ thread["bg"].pc \in {"sleep", "dead"}

\* C28: before its first sleep is over the background loop has done nothing;
\* a cycle takes its snapshot before it refreshes anything, and the URL the
\* loop is refreshing is one of the running cycle's snapshot; in every cycle
\* the URLs taken up are URLs of the snapshot, each taken up once, and when
\* the cycle is over every URL of the snapshot has been taken up; a URL that
\* a request registered while a cycle was running is not in that cycle's
\* snapshot and is in the snapshot of the next cycle.
C28_CycleWorksOnSnapshot ==
    /\ cycles = 0 => (rounds = <<>> /\ thread["bg"] = Locals("sleep"))
    /\ Len(rounds) \in {cycles - 1, cycles}
    /\ Len(rounds) = cycles - 1
          => thread["bg"].pc \in {"snapshot", "snapshot_locked"}
    /\ Refreshing =>
          /\ Len(rounds) = cycles
          /\ thread["bg"].url \in rounds[cycles].snapshot
          /\ thread["bg"].url \in rounds[cycles].done
    /\ \A c \in 1..Len(rounds) :
          /\ rounds[c].done \subseteq rounds[c].snapshot
          /\ rounds[c].runs = Cardinality(rounds[c].done)
          /\ CycleOver(c) => rounds[c].done = rounds[c].snapshot
          /\ rounds[c].late \cap rounds[c].snapshot = {}
          /\ c < Len(rounds) => rounds[c].late \subseteq rounds[c + 1].snapshot

(***************************************************************************)
(* Failures of the request path of the proactive cache, checked under      *)
(* SpecSoloize.                                                            *)
(***************************************************************************)
\* The call ran the pipeline: the URL was refused by validate_url, or the
\* feed was requested.
RanPipeline(c) == c.raised = "ValueError" \/ c.fetches = 1

\* The step is the return of a call of request thread t with an error.
CallFails(t) ==
    /\ thread[t].pc \in {"pipeline", "fetching"}
    /\ thread'[t].pc = "idle"
    /\ Len(history'[t]) = Len(history[t]) + 1
    /\ Last(history'[t]).raised # "none"

\* C29: a call that ended with an error returned no text, its error is the
\* pipeline's (ValueError before any feed request, or the error of its one
\* feed request or of the parse), and the step it ended with left the map and
\* the tracked set as they were; as long as no pipeline run has succeeded,
\* the map and the tracked set are empty, whatever calls have failed; and
\* every call that looked its URL up when nothing had stored it, a call that
\* follows a failed call for the same URL among them, ran the pipeline.
C29_FailedMissLeavesNoTrace ==
    /\ [](\A t \in Requests : \A n \in 1..Len(history[t]) :
             LET c == history[t][n] IN
             c.raised # "none"
                => /\ c.output = <<>>
                   /\ c.raised \in {"ValueError", "RequestException",
                                    "ParseError"}
                   /\ c.fetches = (IF c.raised = "ValueError" THEN 0 ELSE 1))
    /\ [](\A t \in Requests : \A n \in 1..Len(history[t]) :
             history[t][n].seen = 0 => RanPipeline(history[t][n]))
    /\ []((/\ \A url \in AllFeedUrls : stored[url] = 0
           /\ \A t \in Threads : thread[t].pc # "set_track")
             => /\ SOLOIZE_CACHE = <<>>
                /\ SOLOIZE_TRACKED_URLS = {})
    /\ [][\A t \in Requests :
             CallFails(t) => /\ SOLOIZE_CACHE' = SOLOIZE_CACHE
                             /\ SOLOIZE_TRACKED_URLS' = SOLOIZE_TRACKED_URLS
                             /\ stored' = stored]_vars

\* A thread's call failed on the feed request, nothing was stored, and its
\* next call for the same URL requested the feed again and returned the
\* calendar; the background loop has not begun a cycle.
C29_Witness ==
    /\ cycles = 0
    /\ \E t \in Requests :
          /\ Len(history[t]) = 2
          /\ history[t][1].raised = "RequestException"
          /\ history[t][2].url = history[t][1].url
          /\ history[t][2].seen = 0
          /\ history[t][2].raised = "none"
          /\ history[t][2].fetches = 1
          /\ history[t][2].output = <<history[t][1].url, 2>>
          /\ SOLOIZE_TRACKED_URLS = {history[t][1].url}

(***************************************************************************)
(* The order of the stores of the proactive cache, checked under           *)
(* SpecSoloize.                                                            *)
(***************************************************************************)
\* The number of the feed request a stored text came from: feed requests are
\* numbered in the order they are issued.
FetchedAt(text) == text[2]

\* C30: no step replaces the text the map holds for a URL by a text that came
\* from an earlier feed request.
C30_OlderFetchNeverOverwritesNewer ==
    [][\A url \in DOMAIN SOLOIZE_CACHE :
          FetchedAt(SOLOIZE_CACHE'[url]) >= FetchedAt(SOLOIZE_CACHE[url])]_vars

(***************************************************************************)
(* The events of the interesting-weather builder, checked under Spec.      *)
(* The blocks of one build begin at different hours, so no two of its      *)
(* events have the same UID and calendar.events holds them all.            *)
(***************************************************************************)
\* The temperatures and the precipitation probabilities of a block, a null
\* probability counting as 0.
BlockTemps(block) == {periods[block[k]].temperature : k \in 1..Len(block)}

BlockPops(block) ==
    { IF IsNull(periods[block[k]].probabilityOfPrecipitation) THEN 0
      ELSE Val(periods[block[k]].probabilityOfPrecipitation) :
      k \in 1..Len(block) }

Least(numbers) == CHOOSE m \in numbers : \A x \in numbers : m <= x

Greatest(numbers) == CHOOSE m \in numbers : \A x \in numbers : m >= x

\* "lo-hi", or the one number when the two are equal.
RangeText(numbers) ==
    IF Least(numbers) = Greatest(numbers) THEN Str(Least(numbers))
    ELSE Str(Least(numbers)) \o <<"-">> \o Str(Greatest(numbers))

\* The fixed name of a mode other than rain.
ModeLabel(fn) ==
    CASE fn = "warm" -> "Open [window] for [hot springs]"
      [] fn = "cool" -> "Open [window] for [cool]"
      [] fn = "comfortable" -> "Open [window]"

\* C31: every block weather_blocks has emitted has its event as soon as the
\* builder's loop body has run for it, and no block has more than one: event
\* j is the event of block j.  Its begin is the startTime of the block's first
\* period and its end the endTime of the last; its name is the shortForecast
\* all periods of the block share (rain) or the label of the mode; its
\* description gives the least and the greatest temperature and probability
\* of the block, one number when the two are equal; its UID is create_uid of
\* name, begin and end put together, so that two events have the same UID
\* exactly when they agree in these three.
C31_OneEventPerBlock ==
    op \in InterestFns =>
        /\ Len(events) = (IF pc = "yielded" THEN Len(blocks) - 1
                          ELSE Len(blocks))
        /\ \A j \in 1..Len(events) :
              LET block == blocks[j]
                  event == events[j]
              IN  /\ event.begin = periods[block[1]].startTime
                  /\ event.end = periods[block[Len(block)]].endTime
                  /\ IF op = "rain"
                     THEN \A k \in 1..Len(block) :
                             periods[block[k]].shortForecast = event.name
                     ELSE event.name = ModeLabel(op)
                  /\ event.description =
                        RangeText(BlockTemps(block)) \o <<"F", "\n">>
                        \o RangeText(BlockPops(block))
                        \o <<"% chance of rain", "\n">>
                        \o <<"Forecast updated ">> \o get_forecast_timestamp
                  /\ event.uid =
                        create_uid(<<event.name>> \o event.begin \o event.end)
                  /\ \A l \in 1..Len(events) :
                        (events[l].uid = event.uid)
                           <=> /\ events[l].name = event.name
                               /\ events[l].begin = event.begin
                               /\ events[l].end = event.end

(***************************************************************************)
(* The events of the alert builder, checked under SpecAlerts.  An alert    *)
(* whose end is before its onset is refused by the end setter of ics.Event *)
(* and ends the build; the events are then those of the features before    *)
(* it.                                                                     *)
(***************************************************************************)
\* The events built so far are those of the features taken so far, one each
\* and in order, with the feature's event type as name, its onset as begin
\* and End(feature) as end; a build that has returned has one for every
\* feature.
AlertEventsAre(End(_)) ==
    op = "alerts" =>
        /\ Len(events) = (IF raised = "none" THEN i ELSE i - 1)
        /\ pc = "done" => Len(events) = Len(features)
        /\ \A j \in 1..Len(events) :
              /\ events[j].name = features[j].event
              /\ events[j].begin = features[j].onset
              /\ events[j].end = End(features[j])

\* ends when it is not null, expires when it is.
EndsUnlessNull(properties) ==
    IF properties.ends # Null THEN Val(properties.ends)
    ELSE properties.expires

\* ends when it is neither null nor the empty text, expires otherwise.
EndsUnlessNullOrEmpty(properties) ==
    IF properties.ends \notin {Null, Given(<<>>)} THEN Val(properties.ends)
    ELSE properties.expires

\* C32 as stated: one event per alert feature, named by the event type,
\* beginning at the onset, and ending at ends whenever ends is not null and
\* at expires only when ends is null.
C32_AlertEndIsEndsUnlessNull == AlertEventsAre(EndsUnlessNull)

\* C32 as the builder behaves: one event per alert feature, named by the
\* event type, beginning at the onset, and ending at ends whenever ends is
\* neither null nor the empty text, and at expires when ends is null or
\* empty.
C32_AlertEndIsEndsUnlessNullOrEmpty == AlertEventsAre(EndsUnlessNullOrEmpty)

\* A returned calendar of three alerts: one with an end, one whose ends is
\* null and one whose ends is the empty text, the last two ending at their
\* expires.
C32_Witness ==
    /\ op = "alerts"
    /\ pc = "done"
    /\ Len(events) = 3
    /\ \E j, k, l \in 1..3 :
          /\ truthy(features[j].ends)
          /\ events[j].end = Val(features[j].ends)
          /\ events[j].end # features[j].expires
          /\ features[k].ends = Null
          /\ events[k].end = features[k].expires
          /\ features[l].ends = Given(<<>>)
          /\ events[l].end = features[l].expires
====
